---- MODULE Spec2Model ----
(***************************************************************************)
(* Model of the Suricata dashboard's YAML configuration subsystem:         *)
(*   binary/config/core.py          ConfigFile, to_bool, SuricataDumper    *)
(*   binary/config/sections/*.py    the five section managers              *)
(*   binary/config/yaml_manager.py  YAMLConfigManager                      *)
(*   binary/api/suricata.py         the HTTP handlers that call it         *)
(* and of two components beside it:                                        *)
(*   binary/integrations/rate_limiter.py   RateLimiter                     *)
(*   binary/app/background_tasks.py        the auto-restart monitor        *)
(*                                                                         *)
(* Python values are tagged records, dictionaries keep insertion order as  *)
(* a sequence of key/value entries, and the file on disk holds YAML text   *)
(* as a tree of nodes whose scalars keep their written style and text.     *)
(***************************************************************************)
EXTENDS Integers, Sequences, FiniteSets, TLC

VARIABLES file, last, nops, pc, loaded, order,
          limiters, now, sent,
          running, is_running, retry_count, last_status, at, restarts

\* the configuration subsystem, the rate limiter, the auto-restart monitor
configVars == <<file, last, nops, pc, loaded, order>>

limiterVars == <<limiters, now, sent>>

monitorVars == <<running, is_running, retry_count, last_status, at, restarts>>

vars == <<configVars, limiterVars, monitorVars>>

\* the integrations that send notifications
Names == {"telegram", "discord"}

\* self.limiters = {}: no name has a deque
NoDeques == [n \in Names |-> [present |-> FALSE, q |-> << >>]]

\* nothing accepted, no call made, never reset
NoSends == [n \in Names |-> [times |-> << >>, args |-> {}, cleared |-> FALSE]]

\* no rate limiter in use
NoLimiter == limiters = NoDeques /\ now = 0 /\ sent = NoSends

\* no monitor thread started (AUTO_RESTART_ENABLED is false)
NoMonitor ==
  /\ running = FALSE
  /\ is_running = FALSE
  /\ retry_count = 0
  /\ last_status = "none"
  /\ at = "off"
  /\ restarts = 0

(***************************************************************************)
(* Python values                                                           *)
(***************************************************************************)
PyNone == [t |-> "none"]

PyBool(b) == [t |-> "bool", b |-> b]

PyInt(i) == [t |-> "int", i |-> i]

PyStr(s) == [t |-> "str", s |-> s]

PyList(xs) == [t |-> "list", items |-> xs]

PyDict(es) == [t |-> "dict", kv |-> es]

\* an object no YAML representer is registered for
PyObj == [t |-> "obj"]

E(key, val) == [k |-> key, v |-> val]

EmptyDict == PyDict(<< >>)

EmptyList == PyList(<< >>)

IsDict(x) == x.t = "dict"

IsList(x) == x.t = "list"

IsStr(x) == x.t = "str"

\* bool(x)
Truthy(x) ==
  CASE x.t = "none" -> FALSE
    [] x.t = "bool" -> x.b
    [] x.t = "int" -> x.i # 0
    [] x.t = "str" -> x.s # ""
    [] x.t = "list" -> Len(x.items) > 0
    [] x.t = "dict" -> Len(x.kv) > 0
    [] OTHER -> TRUE

DictKeys(d) == {d.kv[i].k : i \in DOMAIN d.kv}

\* key in d, for a dict d
DictHas(d, key) == key \in DictKeys(d)

DictIdx(d, key) == CHOOSE i \in DOMAIN d.kv : d.kv[i].k = key

\* d[key], for a dict d that has key
DictGet(d, key) == d.kv[DictIdx(d, key)].v

\* d.get(key, dflt)
DictGetOr(d, key, dflt) == IF DictHas(d, key) THEN DictGet(d, key) ELSE dflt

\* d[key] = val: an existing key keeps its position, a new key goes last
DictSet(d, key, val) ==
  IF DictHas(d, key)
    THEN PyDict([d.kv EXCEPT ![DictIdx(d, key)] = E(key, val)])
    ELSE PyDict(Append(d.kv, E(key, val)))

RECURSIVE DictUpdateFrom(_, _, _)
DictUpdateFrom(d, es, i) ==
  IF i > Len(es) THEN d ELSE DictUpdateFrom(DictSet(d, es[i].k, es[i].v), es, i + 1)

\* d.update(other) and {**d, **other}, for dicts d and other
DictUpdate(d, other) == DictUpdateFrom(d, other.kv, 1)

\* del d[key] (used to state frame conditions)
DictWithout(d, key) == PyDict(SelectSeq(d.kv, LAMBDA e : e.k # key))

\* the result of evaluating Python code: a value, or the exception it raised
Ok(x) == [raised |-> "", val |-> x]

Raise(exc) == [raised |-> exc, val |-> PyNone]

(***************************************************************************)
(* Text: the strings the model draws scalars from, with str.strip and      *)
(* str.lower tabulated on them.                                            *)
(***************************************************************************)
\* whitespace characters, and the padding one of them or none makes
Whitespace == {" ", "\t", "\n"}

Pads == {""} \cup Whitespace

\* texts without whitespace at either end
StrippedTexts ==
  {"", "0", "1", "true", "True", "TRUE", "yes", "Yes", "YES", "yEs", "on", "On", "ON",
   "no", "No", "off", "false", "maybe"}

\* those texts with whitespace around them
PaddedTexts == {l \o w \o r : l \in Pads, w \in StrippedTexts, r \in Pads}

\* str.strip(): the text without the whitespace around it
StrStrip(s) ==
  IF s \in StrippedTexts \/ s \notin PaddedTexts THEN s
  ELSE CHOOSE w \in StrippedTexts : \E l \in Pads, r \in Pads : s = l \o w \o r

StrLower(s) ==
  CASE s \in {"YES", "Yes", "yEs"} -> "yes"
    [] s \in {"NO", "No"} -> "no"
    [] s \in {"TRUE", "True"} -> "true"
    [] s \in {"FALSE", "False"} -> "false"
    [] s \in {"ON", "On"} -> "on"
    [] s \in {"OFF", "Off"} -> "off"
    [] OTHER -> s

TRUE_VALUES == {"1", "true", "yes", "on"}

\* core.py to_bool (yaml_manager.py _to_bool is the same code)
\* a normalization that compares the string as given, whitespace included
to_bool_unstripped(value) ==
  IF IsStr(value) THEN StrLower(value.s) \in TRUE_VALUES ELSE Truthy(value)

to_bool(value) ==
  IF IsStr(value) THEN StrLower(StrStrip(value.s)) \in TRUE_VALUES ELSE Truthy(value)

(***************************************************************************)
(* YAML text on disk: a tree of nodes.  A scalar keeps its style (plain,   *)
(* quoted, or tagged with an explicit tag) and its text.  Mapping keys are *)
(* plain strings that resolve to str.                                      *)
(***************************************************************************)
Scalar(style, tag, text) == [n |-> "scalar", style |-> style, tag |-> tag, text |-> text]

Plain(text) == Scalar("plain", "", text)

Quoted(text) == Scalar("quoted", "", text)

NSeq(xs) == [n |-> "seq", items |-> xs]

NMap(es) == [n |-> "map", kv |-> es]

\* the integers the model's documents use
KnownInts == {0, 1, 99, 2560}

BoolTexts ==
  {"yes", "Yes", "YES", "no", "No", "NO", "true", "True", "TRUE",
   "false", "False", "FALSE", "on", "On", "ON", "off", "Off", "OFF"}

NullTexts == {"", "~", "null", "Null", "NULL"}

\* the YAML 1.1 implicit resolver of yaml.safe_load / yaml.dump on a plain scalar
ResolveTag(text) ==
  CASE text \in BoolTexts -> "bool"
    [] text \in NullTexts -> "null"
    [] \E i \in KnownInts : ToString(i) = text -> "int"
    [] OTHER -> "str"

\* PyYAML's stock bool representer, which writes true/false
represent_bool_truefalse(data) == Scalar("any", "bool", IF data THEN "true" ELSE "false")

\* a representer with the two literals exchanged
represent_bool_swapped(data) == Scalar("any", "bool", IF data THEN "no" ELSE "yes")

\* core.py _represent_bool, registered on SuricataDumper for bool
represent_bool(data) == Scalar("any", "bool", IF data THEN "yes" ELSE "no")

RECURSIVE Representable(_)
\* SafeDumper has a representer for every value but an arbitrary object
Representable(x) ==
  CASE x.t = "obj" -> FALSE
    [] x.t = "list" -> \A i \in DOMAIN x.items : Representable(x.items[i])
    [] x.t = "dict" -> \A i \in DOMAIN x.kv : Representable(x.kv[i].v)
    [] OTHER -> TRUE

RECURSIVE Represent(_)
\* SuricataDumper.represent_data: the node graph of a representable value
Represent(x) ==
  CASE x.t = "none" -> Scalar("any", "null", "null")
    [] x.t = "bool" -> represent_bool(x.b)
    [] x.t = "int" -> Scalar("any", "int", ToString(x.i))
    [] x.t = "str" -> Scalar("any", "str", x.s)
    [] x.t = "list" -> NSeq([i \in DOMAIN x.items |-> Represent(x.items[i])])
    [] OTHER -> NMap([i \in DOMAIN x.kv |-> E(x.kv[i].k, Represent(x.kv[i].v))])

RECURSIVE Emit(_)
\* the emitter: a scalar is written plain when the plain text resolves to its
\* own tag, a string is quoted otherwise, any other tag is written out
Emit(node) ==
  CASE node.n = "scalar" ->
         IF ResolveTag(node.text) = node.tag /\ StrStrip(node.text) = node.text
           THEN Plain(node.text)
           ELSE IF node.tag = "str" THEN Quoted(node.text)
           ELSE Scalar("tagged", node.tag, node.text)
    [] node.n = "seq" -> NSeq([i \in DOMAIN node.items |-> Emit(node.items[i])])
    [] OTHER -> NMap([i \in DOMAIN node.kv |-> E(node.kv[i].k, Emit(node.kv[i].v))])

ScalarTag(node) ==
  CASE node.style = "plain" -> ResolveTag(node.text)
    [] node.style = "quoted" -> "str"
    [] OTHER -> node.tag

RECURSIVE Constructible(_)
\* SafeConstructor rejects a bool or int scalar whose text is not one
Constructible(node) ==
  CASE node.n = "scalar" ->
         CASE ScalarTag(node) = "bool" -> node.text \in BoolTexts
           [] ScalarTag(node) = "int" -> \E i \in KnownInts : ToString(i) = node.text
           [] OTHER -> TRUE
    [] node.n = "seq" -> \A i \in DOMAIN node.items : Constructible(node.items[i])
    [] OTHER -> \A i \in DOMAIN node.kv : Constructible(node.kv[i].v)

RECURSIVE Construct(_)
\* SafeConstructor: the Python value of a node
Construct(node) ==
  CASE node.n = "scalar" ->
         CASE ScalarTag(node) = "bool" -> PyBool(StrLower(node.text) \in {"yes", "true", "on"})
           [] ScalarTag(node) = "int" -> PyInt(CHOOSE i \in KnownInts : ToString(i) = node.text)
           [] ScalarTag(node) = "null" -> PyNone
           [] OTHER -> PyStr(node.text)
    [] node.n = "seq" -> PyList([i \in DOMAIN node.items |-> Construct(node.items[i])])
    [] OTHER -> PyDict([i \in DOMAIN node.kv |-> E(node.kv[i].k, Construct(node.kv[i].v))])

(***************************************************************************)
(* The file                                                                *)
(***************************************************************************)
Missing == [f |-> "missing"]

EmptyFile == [f |-> "empty"]

Doc(root) == [f |-> "yaml", root |-> root]

\* ConfigFile.load
ConfigFile_load(f) ==
  IF f.f = "missing" THEN Raise("FileNotFoundError")
  ELSE IF f.f = "empty" THEN Ok(EmptyDict)
  ELSE IF ~Constructible(f.root) THEN Raise("ConstructorError")
  ELSE LET x == Construct(f.root) IN Ok(IF Truthy(x) THEN x ELSE EmptyDict)

\* open(path, "w"): the file is created or cut to nothing
OpenForWrite(f) == EmptyFile

\* a dump that reports success without writing
DumpNothing(f, config) == [ret |-> TRUE, file |-> f]

\* yaml.dump into the open file: the node graph is built first, and nothing
\* is written when a value has no representer
DumpInto(f, config) ==
  IF Representable(config)
    THEN [ret |-> TRUE, file |-> Doc(Emit(Represent(config)))]
    ELSE [ret |-> FALSE, file |-> f]

\* ConfigFile.save: any exception is caught and reported as False
ConfigFile_save(f, config) == DumpInto(OpenForWrite(f), config)

(***************************************************************************)
(* Python operators that can raise                                         *)
(***************************************************************************)
\* `key in x` raises TypeError when x is not a container
InRaises(x) == x.t \in {"none", "bool", "int", "obj"}

\* `key in x` for a dict (its keys), a list (its elements) or a string (the
\* model's strings contain a key only when they equal it)
PyIn(key, x) ==
  CASE x.t = "dict" -> DictHas(x, key)
    [] x.t = "list" -> \E i \in DOMAIN x.items : x.items[i] = PyStr(key)
    [] OTHER -> x.s = key

\* run B on the value of r unless r already raised
Then(r, B(_)) == IF r.raised # "" THEN r ELSE B(r.val)

\* `except Exception: ... return False` around load, mutation and save
\* (`saved` records the document handed to save, None when save was not reached)
TrySave(f, r) ==
  IF r.raised # ""
    THEN [ret |-> FALSE, file |-> f, raised |-> "", saved |-> PyNone]
    ELSE LET s == ConfigFile_save(f, r.val)
         IN  [ret |-> s.ret, file |-> s.file, raised |-> "", saved |-> r.val]

\* load, mutation and save with no handler around them
SaveUnguarded(f, r) ==
  IF r.raised # ""
    THEN [ret |-> FALSE, file |-> f, raised |-> r.raised, saved |-> PyNone]
    ELSE LET s == ConfigFile_save(f, r.val)
         IN  [ret |-> s.ret, file |-> s.file, raised |-> "", saved |-> r.val]

\* d.update(settings): settings must be a mapping
UpdateOrRaise(d, settings) ==
  IF IsDict(settings) THEN Ok(DictUpdate(d, settings)) ELSE Raise("TypeError")

(***************************************************************************)
(* AppLayerConfig (sections/app_layer.py)                                  *)
(***************************************************************************)
AppLayerConfig_get_protocols(f) ==
  Then(ConfigFile_load(f), LAMBDA config :
    IF ~IsDict(config) THEN Raise("AttributeError")
    ELSE LET app_layer == DictGetOr(config, "app-layer", EmptyDict)
         IN  IF ~IsDict(app_layer) THEN Raise("AttributeError")
             ELSE Ok(DictGetOr(app_layer, "protocols", EmptyDict)))

\* an update that replaces the protocol's entry instead of merging into it
update_protocol_replace(config, protocol, enabled, settings) ==
  IF ~IsDict(config) THEN Raise("AttributeError")
  ELSE LET app_layer == DictGetOr(config, "app-layer", EmptyDict) IN
  IF ~IsDict(app_layer) THEN Raise("AttributeError")
  ELSE LET protocols == DictGetOr(app_layer, "protocols", EmptyDict) IN
  IF ~IsDict(protocols) THEN Raise("AttributeError")
  ELSE LET flagged == PyDict(<<E("enabled", PyBool(to_bool(enabled)))>>)
           merged == IF Truthy(settings) THEN UpdateOrRaise(flagged, settings) ELSE Ok(flagged)
       IN  Then(merged, LAMBDA pc2 :
             Ok(DictSet(config, "app-layer",
                  DictSet(app_layer, "protocols", DictSet(protocols, protocol, pc2)))))

\* an update that inverts the stored flag when the protocol is already there
update_protocol_flip(config, protocol, enabled, settings) ==
  IF ~IsDict(config) THEN Raise("AttributeError")
  ELSE LET app_layer == DictGetOr(config, "app-layer", EmptyDict) IN
  IF ~IsDict(app_layer) THEN Raise("AttributeError")
  ELSE LET protocols == DictGetOr(app_layer, "protocols", EmptyDict) IN
  IF ~IsDict(protocols) THEN Raise("AttributeError")
  ELSE LET protocol_config == DictGetOr(protocols, protocol, EmptyDict) IN
  IF ~IsDict(protocol_config) THEN Raise("TypeError")
  ELSE LET was == Truthy(DictGetOr(protocol_config, "enabled", PyBool(FALSE)))
           flagged == DictSet(protocol_config, "enabled", PyBool(~was))
       IN  Ok(DictSet(config, "app-layer",
                DictSet(app_layer, "protocols", DictSet(protocols, protocol, flagged))))

update_protocol_body(config, protocol, enabled, settings) ==
  IF ~IsDict(config) THEN Raise("AttributeError")
  ELSE LET app_layer == DictGetOr(config, "app-layer", EmptyDict) IN
  IF ~IsDict(app_layer) THEN Raise("AttributeError")
  ELSE LET protocols == DictGetOr(app_layer, "protocols", EmptyDict) IN
  IF ~IsDict(protocols) THEN Raise("AttributeError")
  ELSE LET protocol_config == DictGetOr(protocols, protocol, EmptyDict) IN
  IF ~IsDict(protocol_config) THEN Raise("TypeError")
  ELSE LET flagged == DictSet(protocol_config, "enabled", PyBool(to_bool(enabled)))
           merged == IF Truthy(settings) THEN UpdateOrRaise(flagged, settings) ELSE Ok(flagged)
       IN  Then(merged, LAMBDA pc2 :
             Ok(DictSet(config, "app-layer",
                  DictSet(app_layer, "protocols", DictSet(protocols, protocol, pc2)))))

\* update_protocol with the try/except left out
AppLayerConfig_update_protocol_unguarded(f, protocol, enabled, settings) ==
  SaveUnguarded(f, Then(ConfigFile_load(f),
    LAMBDA config : update_protocol_body(config, protocol, enabled, settings)))

AppLayerConfig_update_protocol(f, protocol, enabled, settings) ==
  TrySave(f, Then(ConfigFile_load(f),
    LAMBDA config : update_protocol_body(config, protocol, enabled, settings)))

(***************************************************************************)
(* SystemConfig (sections/system.py)                                       *)
(***************************************************************************)
\* config.get(key, dflt) at the document root
RootGet(f, key, dflt) ==
  Then(ConfigFile_load(f), LAMBDA config :
    IF ~IsDict(config) THEN Raise("AttributeError") ELSE Ok(DictGetOr(config, key, dflt)))

SystemConfig_get_vars(f) == RootGet(f, "vars", EmptyDict)

\* a write of the section alone, dropping the rest of the document
update_vars_section_only(config, variables) ==
  Ok(PyDict(<<E("vars", IF Truthy(variables) THEN variables ELSE EmptyDict)>>))

update_vars_body(config, variables) ==
  IF ~IsDict(config) THEN Raise("TypeError")
  ELSE Ok(DictSet(config, "vars", IF Truthy(variables) THEN variables ELSE EmptyDict))

SystemConfig_update_vars(f, variables) ==
  TrySave(f, Then(ConfigFile_load(f), LAMBDA config : update_vars_body(config, variables)))

\* `if key not in config: config[key] = {}`, then config[key] is read
EnsureKey(config, key, dflt) ==
  IF InRaises(config) THEN Raise("TypeError")
  ELSE IF ~IsDict(config) THEN Raise("TypeError")
  ELSE Ok(IF DictHas(config, key) THEN config ELSE DictSet(config, key, dflt))

update_var_body(config, var_name, value) ==
  Then(EnsureKey(config, "vars", EmptyDict), LAMBDA c1 :
    IF ~IsDict(DictGet(c1, "vars")) THEN Raise("TypeError")
    ELSE Ok(DictSet(c1, "vars", DictSet(DictGet(c1, "vars"), var_name, value))))

SystemConfig_update_var(f, var_name, value) ==
  TrySave(f, Then(ConfigFile_load(f), LAMBDA config : update_var_body(config, var_name, value)))

RECURSIVE FlattenOutputs(_, _, _)
FlattenOutputs(acc, outputs, i) ==
  IF i > Len(outputs) THEN acc
  ELSE FlattenOutputs(IF IsDict(outputs[i]) THEN DictUpdate(acc, outputs[i]) ELSE acc,
                      outputs, i + 1)

\* a read that hands back the `outputs` value as it is stored
get_outputs_raw(f) == RootGet(f, "outputs", EmptyList)

SystemConfig_get_outputs(f) ==
  Then(RootGet(f, "outputs", EmptyList), LAMBDA outputs_list :
    Ok(IF IsList(outputs_list) THEN FlattenOutputs(EmptyDict, outputs_list.items, 1)
       ELSE EmptyDict))

RECURSIVE FindOutput(_, _, _)
\* the loop `for output in outputs: if output_name in output: ... break`
FindOutput(outputs, output_name, i) ==
  IF i > Len(outputs) THEN [raised |-> "", idx |-> 0]
  ELSE IF InRaises(outputs[i]) THEN [raised |-> "TypeError", idx |-> 0]
  ELSE IF PyIn(output_name, outputs[i]) THEN [raised |-> "", idx |-> i]
  ELSE FindOutput(outputs, output_name, i + 1)

\* the new value of an entry of `outputs` that holds output_name
UpdatedOutput(output, output_name, enabled_flag, settings) ==
  IF ~IsDict(output) THEN Raise("TypeError")
  ELSE LET cur == DictGet(output, output_name) IN
    IF IsDict(cur)
      THEN Then(IF Truthy(settings)
                  THEN UpdateOrRaise(DictSet(cur, "enabled", PyBool(enabled_flag)), settings)
                  ELSE Ok(DictSet(cur, "enabled", PyBool(enabled_flag))),
                LAMBDA cur2 : Ok(DictSet(output, output_name, cur2)))
      ELSE Ok(DictSet(output, output_name, PyBool(enabled_flag)))

\* an update that adds a new entry without looking for an existing one
update_output_always_append(config, output_name, enabled, settings) ==
  Then(EnsureKey(config, "outputs", EmptyList), LAMBDA c1 :
    LET outputs == DictGet(c1, "outputs") IN
    IF ~IsList(outputs) THEN Raise("TypeError")
    ELSE Then(IF Truthy(settings)
                THEN UpdateOrRaise(PyDict(<<E("enabled", PyBool(to_bool(enabled)))>>), settings)
                ELSE Ok(PyDict(<<E("enabled", PyBool(to_bool(enabled)))>>)),
              LAMBDA body : Ok(DictSet(c1, "outputs",
                                PyList(Append(outputs.items,
                                              PyDict(<<E(output_name, body)>>)))))))

update_output_body(config, output_name, enabled, settings) ==
  Then(EnsureKey(config, "outputs", EmptyList), LAMBDA c1 :
    LET outputs == DictGet(c1, "outputs")
        enabled_flag == to_bool(enabled)
    IN  IF ~IsList(outputs) THEN Raise("TypeError")
        ELSE LET found == FindOutput(outputs.items, output_name, 1) IN
          IF found.raised # "" THEN Raise(found.raised)
          ELSE IF found.idx > 0
            THEN Then(UpdatedOutput(outputs.items[found.idx], output_name, enabled_flag, settings),
                      LAMBDA o2 : Ok(DictSet(c1, "outputs",
                                      PyList([outputs.items EXCEPT ![found.idx] = o2]))))
            ELSE Then(IF Truthy(settings)
                        THEN UpdateOrRaise(PyDict(<<E("enabled", PyBool(enabled_flag))>>), settings)
                        ELSE Ok(PyDict(<<E("enabled", PyBool(enabled_flag))>>)),
                      LAMBDA body : Ok(DictSet(c1, "outputs",
                                        PyList(Append(outputs.items,
                                                      PyDict(<<E(output_name, body)>>)))))))

SystemConfig_update_output(f, output_name, enabled, settings) ==
  TrySave(f, Then(ConfigFile_load(f),
    LAMBDA config : update_output_body(config, output_name, enabled, settings)))

SystemConfig_get_logging(f) == RootGet(f, "logging", EmptyDict)

\* `if key not in config: config[key] = {}` and `config[key].update(settings)`
merge_section_body(config, key, settings) ==
  Then(EnsureKey(config, key, EmptyDict), LAMBDA c1 :
    IF ~IsDict(DictGet(c1, key)) THEN Raise("AttributeError")
    ELSE Then(UpdateOrRaise(DictGet(c1, key), settings),
              LAMBDA merged : Ok(DictSet(c1, key, merged))))

SystemConfig_update_logging(f, settings) ==
  TrySave(f, Then(ConfigFile_load(f), LAMBDA config : merge_section_body(config, "logging", settings)))

SystemConfig_get_host(f) == RootGet(f, "host", EmptyDict)

SystemConfig_update_host(f, settings) ==
  TrySave(f, Then(ConfigFile_load(f), LAMBDA config : merge_section_body(config, "host", settings)))

(***************************************************************************)
(* CaptureConfig (sections/capture.py)                                     *)
(***************************************************************************)
CaptureConfig_get_packet_capture_config(f, capture_type) ==
  Then(RootGet(f, capture_type, EmptyList), LAMBDA capture_list :
    Ok(IF IsList(capture_list) /\ Truthy(capture_list) /\ IsDict(capture_list.items[1])
         THEN capture_list.items[1]
         ELSE EmptyDict))

\* a write that adds the settings as a further entry of the sequence
update_packet_capture_append(config, capture_type, settings) ==
  Then(EnsureKey(config, capture_type, EmptyList), LAMBDA c1 :
    LET cur == DictGet(c1, capture_type) IN
    IF IsList(cur) /\ IsDict(settings)
      THEN Ok(DictSet(c1, capture_type, PyList(Append(cur.items, settings))))
      ELSE Raise("TypeError"))

update_packet_capture_body(config, capture_type, settings) ==
  Then(EnsureKey(config, capture_type, PyList(<<EmptyDict>>)), LAMBDA c1 :
    LET cur == DictGet(c1, capture_type) IN
    IF IsList(cur) /\ Truthy(cur) /\ IsDict(cur.items[1])
      THEN Then(UpdateOrRaise(cur.items[1], settings), LAMBDA first :
             Ok(DictSet(c1, capture_type, PyList([cur.items EXCEPT ![1] = first]))))
      ELSE Ok(DictSet(c1, capture_type, PyList(<<settings>>))))

CaptureConfig_update_packet_capture_config(f, capture_type, settings) ==
  TrySave(f, Then(ConfigFile_load(f),
    LAMBDA config : update_packet_capture_body(config, capture_type, settings)))

CaptureConfig_get_af_packet_config(f) ==
  CaptureConfig_get_packet_capture_config(f, "af-packet")

CaptureConfig_update_af_packet_config(f, settings) ==
  CaptureConfig_update_packet_capture_config(f, "af-packet", settings)

\* the entries of a capture list that get_interfaces reports
WithInterface(x) ==
  IF IsList(x) THEN SelectSeq(x.items, LAMBDA e : IsDict(e) /\ DictHas(e, "interface"))
  ELSE << >>

MapSeq(s, F(_)) == [i \in 1..Len(s) |-> F(s[i])]

AfPacketDescriptor(e) ==
  PyDict(<<E("type", PyStr("af-packet")),
           E("interface", DictGetOr(e, "interface", PyStr(""))),
           E("threads", DictGetOr(e, "threads", PyStr("auto"))),
           E("cluster-id", DictGetOr(e, "cluster-id", PyInt(99))),
           E("cluster-type", DictGetOr(e, "cluster-type", PyStr("cluster_flow"))),
           E("enabled", PyBool(TRUE))>>)

ThreadsDescriptor(type, e) ==
  PyDict(<<E("type", PyStr(type)),
           E("interface", DictGetOr(e, "interface", PyStr(""))),
           E("threads", DictGetOr(e, "threads", PyStr("auto"))),
           E("enabled", PyBool(TRUE))>>)

PcapDescriptor(e) ==
  PyDict(<<E("type", PyStr("pcap")),
           E("interface", DictGetOr(e, "interface", PyStr(""))),
           E("enabled", PyBool(TRUE))>>)

CaptureConfig_get_interfaces(f) ==
  Then(ConfigFile_load(f), LAMBDA config :
    IF ~IsDict(config) THEN Raise("AttributeError")
    ELSE LET dpdk == DictGetOr(config, "dpdk", PyNone) IN
      Ok(PyList(
        MapSeq(WithInterface(DictGetOr(config, "af-packet", PyNone)), AfPacketDescriptor)
        \o MapSeq(WithInterface(DictGetOr(config, "af-xdp", PyNone)),
                  LAMBDA e : ThreadsDescriptor("af-xdp", e))
        \o MapSeq(IF IsDict(dpdk) /\ DictHas(dpdk, "interfaces")
                    THEN WithInterface(DictGet(dpdk, "interfaces")) ELSE << >>,
                  LAMBDA e : ThreadsDescriptor("dpdk", e))
        \o MapSeq(WithInterface(DictGetOr(config, "pcap", PyNone)), PcapDescriptor))))

\* a grouping that puts every entry in every group
OfTypeAny(interfaces, type) == interfaces

\* [iface for iface in interfaces if iface.get("type") == type]
OfType(interfaces, type) ==
  SelectSeq(interfaces, LAMBDA i : DictGetOr(i, "type", PyNone) = PyStr(type))

\* a filter that keeps the disabled entries too
KeepAll(group) == group

Enabled(group) == SelectSeq(group, LAMBDA i : Truthy(DictGetOr(i, "enabled", PyNone)))

AfPacketEntry(iface) ==
  PyDict(<<E("interface", DictGetOr(iface, "interface", PyStr(""))),
           E("threads", DictGetOr(iface, "threads", PyStr("auto"))),
           E("cluster-id", DictGetOr(iface, "cluster-id", PyInt(99))),
           E("cluster-type", DictGetOr(iface, "cluster-type", PyStr("cluster_flow")))>>)

ThreadsEntry(iface) ==
  PyDict(<<E("interface", DictGetOr(iface, "interface", PyStr(""))),
           E("threads", DictGetOr(iface, "threads", PyStr("auto")))>>)

PcapEntry(iface) == PyDict(<<E("interface", DictGetOr(iface, "interface", PyStr("")))>>)

\* `if group: config[key] = [entry(i) for i in group if i.get("enabled")]`
ReplaceGroup(r, key, group, Entry(_)) ==
  Then(r, LAMBDA c :
    IF group = << >> THEN Ok(c)
    ELSE IF ~IsDict(c) THEN Raise("TypeError")
    ELSE Ok(DictSet(c, key, PyList(MapSeq(Enabled(group), Entry)))))

\* the DPDK block of update_interfaces
ReplaceDpdk(r, group) ==
  Then(r, LAMBDA c :
    IF group = << >> THEN Ok(c)
    ELSE Then(EnsureKey(c, "dpdk", EmptyDict), LAMBDA c1 :
      IF ~IsDict(DictGet(c1, "dpdk")) THEN Raise("TypeError")
      ELSE Ok(DictSet(c1, "dpdk",
                DictSet(DictGet(c1, "dpdk"), "interfaces",
                        PyList(MapSeq(Enabled(group), ThreadsEntry)))))))

update_interfaces_body(config, interfaces) ==
  IF ~IsList(interfaces) THEN Raise("TypeError")
  ELSE IF \E i \in DOMAIN interfaces.items : ~IsDict(interfaces.items[i])
    THEN Raise("AttributeError")
  ELSE LET is == interfaces.items IN
    ReplaceGroup(
      ReplaceDpdk(
        ReplaceGroup(
          ReplaceGroup(Ok(config), "af-packet", OfType(is, "af-packet"), AfPacketEntry),
          "af-xdp", OfType(is, "af-xdp"), ThreadsEntry),
        OfType(is, "dpdk")),
      "pcap", OfType(is, "pcap"), PcapEntry)

CaptureConfig_update_interfaces(f, interfaces) ==
  TrySave(f, Then(ConfigFile_load(f), LAMBDA config : update_interfaces_body(config, interfaces)))

(***************************************************************************)
(* EngineConfig (sections/engine.py)                                       *)
(***************************************************************************)
EngineConfig_get_stream(f) ==
  Then(RootGet(f, "stream", EmptyDict), LAMBDA stream_config :
    IF ~IsDict(stream_config) THEN Ok(EmptyDict)
    ELSE IF ~IsDict(DictGetOr(stream_config, "reassembly", PyNone))
      THEN Ok(DictSet(stream_config, "reassembly", EmptyDict))
      ELSE Ok(stream_config))

\* `for key, value in settings.items(): if key != skip: d[key] = value`
SetAllBut(d, settings, skip) ==
  DictUpdate(d, PyDict(SelectSeq(settings.kv, LAMBDA e : e.k # skip)))

\* a one-level merge: every settings key, `reassembly` included, overwrites
update_stream_shallow(config, settings) ==
  IF ~IsDict(config) THEN Raise("AttributeError")
  ELSE IF ~IsDict(settings) THEN Raise("AttributeError")
  ELSE LET stream0 == DictGetOr(config, "stream", EmptyDict)
           existing_stream == IF IsDict(stream0) THEN stream0 ELSE EmptyDict
       IN  Ok(DictSet(config, "stream", DictUpdate(existing_stream, settings)))

update_stream_body(config, settings) ==
  IF ~IsDict(config) THEN Raise("AttributeError")
  ELSE IF ~IsDict(settings) THEN Raise("AttributeError")
  ELSE LET stream0 == DictGetOr(config, "stream", EmptyDict)
           existing_stream == IF IsDict(stream0) THEN stream0 ELSE EmptyDict
           reassembly_settings == DictGetOr(settings, "reassembly", PyNone)
           reassembly0 == DictGetOr(existing_stream, "reassembly", EmptyDict)
           existing_reassembly == IF IsDict(reassembly0) THEN reassembly0 ELSE EmptyDict
           with_reassembly ==
             IF IsDict(reassembly_settings)
               THEN DictSet(existing_stream, "reassembly",
                            DictUpdate(existing_reassembly, reassembly_settings))
               ELSE existing_stream
       IN  Ok(DictSet(config, "stream", SetAllBut(with_reassembly, settings, "reassembly")))

EngineConfig_update_stream(f, settings) ==
  TrySave(f, Then(ConfigFile_load(f), LAMBDA config : update_stream_body(config, settings)))

\* `if key in config: view[key] = config[key]` for each key of keys, in order
RECURSIVE CollectKeys(_, _, _, _)
CollectKeys(view, config, keys, i) ==
  IF i > Len(keys) THEN Ok(view)
  ELSE IF InRaises(config) THEN Raise("TypeError")
  ELSE IF ~PyIn(keys[i], config) THEN CollectKeys(view, config, keys, i + 1)
  ELSE IF ~IsDict(config) THEN Raise("TypeError")
  ELSE CollectKeys(DictSet(view, keys[i], DictGet(config, keys[i])), config, keys, i + 1)

DetectionKeys == <<"detect", "threading", "profiling", "mpm-algo", "sgh-mpm-context">>

EngineConfig_get_detection(f) ==
  Then(ConfigFile_load(f), LAMBDA config : CollectKeys(EmptyDict, config, DetectionKeys, 1))

\* an update that keeps nothing of the document but the given keys
update_detection_replace(config, settings) ==
  IF ~IsDict(settings) THEN Raise("AttributeError")
  ELSE IF settings.kv = << >> THEN Ok(config)
  ELSE IF ~IsDict(config) THEN Raise("TypeError")
  ELSE Ok(settings)

update_detection_body(config, settings) ==
  IF ~IsDict(settings) THEN Raise("AttributeError")
  ELSE IF settings.kv = << >> THEN Ok(config)
  ELSE IF ~IsDict(config) THEN Raise("TypeError")
  ELSE Ok(DictUpdate(config, settings))

EngineConfig_update_detection(f, settings) ==
  TrySave(f, Then(ConfigFile_load(f), LAMBDA config : update_detection_body(config, settings)))

(***************************************************************************)
(* IPSConfig (sections/ips.py)                                             *)
(***************************************************************************)
IpsKeys == <<"action-order", "default-rule-action", "nfq", "netmap">>

\* the first af-packet entry with a truthy copy-mode, 0 when there is none
CopyModeIdx(af_packets) ==
  LET hits == {i \in DOMAIN af_packets :
                 IsDict(af_packets[i]) /\ Truthy(DictGetOr(af_packets[i], "copy-mode", PyNone))}
  IN  IF hits = {} THEN 0 ELSE CHOOSE i \in hits : \A j \in hits : i <= j

IPSConfig_get_ips(f) ==
  Then(ConfigFile_load(f), LAMBDA config :
    Then(CollectKeys(EmptyDict, config, IpsKeys, 1), LAMBDA ips_config :
      IF ~IsDict(config) THEN Raise("AttributeError")
      ELSE LET af_packets == DictGetOr(config, "af-packet", PyNone)
               i == IF IsList(af_packets) THEN CopyModeIdx(af_packets.items) ELSE 0
           IN  IF i = 0 THEN Ok(ips_config)
               ELSE Ok(DictSet(DictSet(ips_config, "af-packet-copy-mode",
                                       DictGet(af_packets.items[i], "copy-mode")),
                               "af-packet-copy-iface",
                               DictGetOr(af_packets.items[i], "copy-iface", PyStr(""))))))

\* `if key in settings: config[key] = settings[key]` for each key of keys, in order
RECURSIVE CopyKeys(_, _, _, _)
CopyKeys(config, settings, keys, i) ==
  IF i > Len(keys) THEN Ok(config)
  ELSE IF InRaises(settings) THEN Raise("TypeError")
  ELSE IF ~PyIn(keys[i], settings) THEN CopyKeys(config, settings, keys, i + 1)
  ELSE IF ~IsDict(settings) \/ ~IsDict(config) THEN Raise("TypeError")
  ELSE CopyKeys(DictSet(config, keys[i], DictGet(settings, keys[i])), settings, keys, i + 1)

\* the af-packet-copy-mode block of update_ips, settings being a dict that has the key
ips_copy_mode_body(config, settings) ==
  Then(EnsureKey(config, "af-packet", PyList(<<EmptyDict>>)), LAMBDA c1 :
    LET af == DictGet(c1, "af-packet") IN
    IF IsList(af) /\ Truthy(af)
      THEN LET entry0 == IF IsDict(af.items[1]) THEN af.items[1] ELSE EmptyDict
               entry1 == DictSet(entry0, "copy-mode", DictGet(settings, "af-packet-copy-mode"))
               entry2 == IF DictHas(settings, "af-packet-copy-iface")
                           THEN DictSet(entry1, "copy-iface",
                                        DictGet(settings, "af-packet-copy-iface"))
                           ELSE entry1
           IN  Ok(DictSet(c1, "af-packet", PyList([af.items EXCEPT ![1] = entry2])))
      ELSE Ok(c1))

update_ips_body(config, settings) ==
  Then(CopyKeys(config, settings, IpsKeys, 1), LAMBDA c0 :
    IF ~PyIn("af-packet-copy-mode", settings) THEN Ok(c0)
    ELSE IF ~IsDict(settings) THEN Raise("TypeError")
    ELSE ips_copy_mode_body(c0, settings))

IPSConfig_update_ips(f, settings) ==
  TrySave(f, Then(ConfigFile_load(f), LAMBDA config : update_ips_body(config, settings)))

(***************************************************************************)
(* YAMLConfigManager (yaml_manager.py): the class the HTTP layer imports.  *)
(* Its load and save are the code of ConfigFile.load and ConfigFile.save.  *)
(***************************************************************************)
\* the methods the class defines
YAMLConfigManagerMethods ==
  {"load", "save", "get_app_layer_protocols", "update_app_layer_protocol",
   "get_af_packet_config", "update_af_packet_config", "get_stream", "update_stream",
   "get_vars", "update_vars", "update_var", "get_outputs", "update_output",
   "get_logging", "update_logging", "get_detection", "update_detection",
   "get_host", "update_host", "get_ips", "update_ips", "get_interfaces",
   "update_interfaces"}

YAMLConfigManager_get_app_layer_protocols(f) ==
  Then(ConfigFile_load(f), LAMBDA config :
    IF ~IsDict(config) THEN Raise("AttributeError")
    ELSE LET app_layer == DictGetOr(config, "app-layer", EmptyDict)
         IN  IF ~IsDict(app_layer) THEN Raise("AttributeError")
             ELSE Ok(DictGetOr(app_layer, "protocols", EmptyDict)))

ym_update_protocol_body(config, protocol, enabled, settings) ==
  Then(EnsureKey(config, "app-layer", EmptyDict), LAMBDA c1 :
    Then(EnsureKey(DictGet(c1, "app-layer"), "protocols", EmptyDict), LAMBDA app_layer :
      Then(EnsureKey(DictGet(app_layer, "protocols"), protocol, EmptyDict), LAMBDA protocols :
        LET protocol_config == DictGet(protocols, protocol) IN
        IF ~IsDict(protocol_config) THEN Raise("TypeError")
        ELSE IF Truthy(settings) /\ ~IsDict(settings) THEN Raise("AttributeError")
        ELSE LET flagged == DictSet(protocol_config, "enabled", PyBool(to_bool(enabled)))
                 merged == IF Truthy(settings) THEN DictUpdate(flagged, settings) ELSE flagged
             IN  Ok(DictSet(c1, "app-layer",
                      DictSet(app_layer, "protocols", DictSet(protocols, protocol, merged)))))))

YAMLConfigManager_update_app_layer_protocol(f, protocol, enabled, settings) ==
  TrySave(f, Then(ConfigFile_load(f),
    LAMBDA config : ym_update_protocol_body(config, protocol, enabled, settings)))

YAMLConfigManager_get_af_packet_config(f) ==
  Then(RootGet(f, "af-packet", EmptyList), LAMBDA af_packet_list :
    Ok(IF IsList(af_packet_list) /\ Len(af_packet_list.items) > 0
         THEN af_packet_list.items[1]
         ELSE EmptyDict))

ym_update_af_packet_body(config, settings) ==
  Then(EnsureKey(config, "af-packet", PyList(<<EmptyDict>>)), LAMBDA c1 :
    LET cur == DictGet(c1, "af-packet") IN
    IF IsList(cur)
      THEN IF Len(cur.items) = 0 THEN Raise("IndexError")
           ELSE IF ~IsDict(cur.items[1]) THEN Raise("AttributeError")
           ELSE Then(UpdateOrRaise(cur.items[1], settings), LAMBDA first :
                  Ok(DictSet(c1, "af-packet", PyList([cur.items EXCEPT ![1] = first]))))
      ELSE Ok(DictSet(c1, "af-packet", PyList(<<settings>>))))

YAMLConfigManager_update_af_packet_config(f, settings) ==
  TrySave(f, Then(ConfigFile_load(f), LAMBDA config : ym_update_af_packet_body(config, settings)))

YAMLConfigManager_get_stream(f) == EngineConfig_get_stream(f)

YAMLConfigManager_update_stream(f, settings) ==
  TrySave(f, Then(ConfigFile_load(f), LAMBDA config : update_stream_body(config, settings)))

YAMLConfigManager_get_vars(f) == RootGet(f, "vars", EmptyDict)

YAMLConfigManager_update_vars(f, variables) ==
  TrySave(f, Then(ConfigFile_load(f), LAMBDA config : update_vars_body(config, variables)))

YAMLConfigManager_update_var(f, var_name, value) ==
  TrySave(f, Then(ConfigFile_load(f), LAMBDA config : update_var_body(config, var_name, value)))

YAMLConfigManager_get_outputs(f) == SystemConfig_get_outputs(f)

YAMLConfigManager_update_output(f, output_name, enabled, settings) ==
  TrySave(f, Then(ConfigFile_load(f),
    LAMBDA config : update_output_body(config, output_name, enabled, settings)))

YAMLConfigManager_get_logging(f) == RootGet(f, "logging", EmptyDict)

YAMLConfigManager_update_logging(f, settings) ==
  TrySave(f, Then(ConfigFile_load(f), LAMBDA config : merge_section_body(config, "logging", settings)))

YAMLConfigManager_get_detection(f) ==
  Then(ConfigFile_load(f), LAMBDA config : CollectKeys(EmptyDict, config, DetectionKeys, 1))

YAMLConfigManager_update_detection(f, settings) ==
  TrySave(f, Then(ConfigFile_load(f), LAMBDA config : update_detection_body(config, settings)))

YAMLConfigManager_get_host(f) == RootGet(f, "host", EmptyDict)

YAMLConfigManager_update_host(f, settings) ==
  TrySave(f, Then(ConfigFile_load(f), LAMBDA config : merge_section_body(config, "host", settings)))

YAMLConfigManager_get_ips(f) ==
  Then(ConfigFile_load(f), LAMBDA config :
    Then(CollectKeys(EmptyDict, config, IpsKeys, 1), LAMBDA ips_config :
      IF InRaises(config) \/ (PyIn("af-packet", config) /\ ~IsDict(config))
        THEN Raise("TypeError")
      ELSE LET af_packets == DictGetOr(config, "af-packet", PyNone)
               i == IF IsDict(config) /\ IsList(af_packets)
                      THEN CopyModeIdx(af_packets.items) ELSE 0
           IN  IF i = 0 THEN Ok(ips_config)
               ELSE Ok(DictSet(DictSet(ips_config, "af-packet-copy-mode",
                                       DictGet(af_packets.items[i], "copy-mode")),
                               "af-packet-copy-iface",
                               DictGetOr(af_packets.items[i], "copy-iface", PyStr(""))))))

\* the af-packet-copy-mode block of YAMLConfigManager.update_ips: the first
\* entry is indexed whatever it is
ym_ips_copy_mode_body(config, settings) ==
  Then(EnsureKey(config, "af-packet", PyList(<<EmptyDict>>)), LAMBDA c1 :
    LET af == DictGet(c1, "af-packet") IN
    IF IsList(af) /\ Len(af.items) > 0
      THEN IF ~IsDict(af.items[1]) THEN Raise("TypeError")
           ELSE LET entry1 == DictSet(af.items[1], "copy-mode",
                                      DictGet(settings, "af-packet-copy-mode"))
                    entry2 == IF DictHas(settings, "af-packet-copy-iface")
                                THEN DictSet(entry1, "copy-iface",
                                             DictGet(settings, "af-packet-copy-iface"))
                                ELSE entry1
                IN  Ok(DictSet(c1, "af-packet", PyList([af.items EXCEPT ![1] = entry2])))
      ELSE Ok(c1))

ym_update_ips_body(config, settings) ==
  Then(CopyKeys(config, settings, IpsKeys, 1), LAMBDA c0 :
    IF ~PyIn("af-packet-copy-mode", settings) THEN Ok(c0)
    ELSE IF ~IsDict(settings) THEN Raise("TypeError")
    ELSE ym_ips_copy_mode_body(c0, settings))

YAMLConfigManager_update_ips(f, settings) ==
  TrySave(f, Then(ConfigFile_load(f), LAMBDA config : ym_update_ips_body(config, settings)))

\* `if key in config: x = config[key]; if isinstance(x, list): ...`
ListedUnder(config, key) ==
  IF IsDict(config) /\ DictHas(config, key) THEN WithInterface(DictGet(config, key)) ELSE << >>

YAMLConfigManager_get_interfaces(f) ==
  Then(ConfigFile_load(f), LAMBDA config :
    IF InRaises(config) THEN Raise("TypeError")
    ELSE IF ~IsDict(config) /\ (PyIn("af-packet", config) \/ PyIn("pcap", config))
      THEN Raise("TypeError")
    ELSE Ok(PyList(MapSeq(ListedUnder(config, "af-packet"), AfPacketDescriptor)
                   \o MapSeq(ListedUnder(config, "pcap"), PcapDescriptor))))

ym_update_interfaces_body(config, interfaces) ==
  IF ~IsList(interfaces) THEN Raise("TypeError")
  ELSE IF \E i \in DOMAIN interfaces.items : ~IsDict(interfaces.items[i])
    THEN Raise("AttributeError")
  ELSE LET is == interfaces.items IN
    ReplaceGroup(
      ReplaceGroup(Ok(config), "af-packet", OfType(is, "af-packet"), AfPacketEntry),
      "pcap", OfType(is, "pcap"), PcapEntry)

YAMLConfigManager_update_interfaces(f, interfaces) ==
  TrySave(f, Then(ConfigFile_load(f), LAMBDA config : ym_update_interfaces_body(config, interfaces)))

(***************************************************************************)
(* SuricataConfigAPI (api/suricata.py): the HTTP handlers.  Each builds a  *)
(* YAMLConfigManager on the configured path.  A response is its status,    *)
(* its `success` field, the file it leaves, the values the facade updates  *)
(* it issued returned, and for a GET the configuration it carries.         *)
(***************************************************************************)
Resp(status, success, f, rets, body) ==
  [status |-> status, success |-> success, file |-> f, rets |-> rets, body |-> body]

\* a POST handler that tests the facade's return value
CheckedPost(f, settings_given, r) ==
  IF ~settings_given THEN Resp(400, FALSE, f, << >>, PyNone)
  ELSE IF f.f = "missing" THEN Resp(404, FALSE, f, << >>, PyNone)
  ELSE IF ~r.ret THEN Resp(500, FALSE, r.file, <<r.ret>>, PyNone)
  ELSE Resp(200, TRUE, r.file, <<r.ret>>, PyNone)

\* a POST handler that calls the facade and answers success whatever it returned
UncheckedPost(f, settings_given, r) ==
  IF ~settings_given THEN Resp(400, FALSE, f, << >>, PyNone)
  ELSE IF f.f = "missing" THEN Resp(404, FALSE, f, << >>, PyNone)
  ELSE Resp(200, TRUE, r.file, <<r.ret>>, PyNone)

\* {k: v for k, v in settings.items() if k != 'enabled'}, None when empty
OtherSettings(settings) ==
  LET rest == DictWithout(settings, "enabled") IN IF Truthy(rest) THEN rest ELSE PyNone

\* the facade update a looping handler calls
CallUpdate(method, f, name, enabled, settings) ==
  IF method = "update_app_layer_protocol"
    THEN YAMLConfigManager_update_app_layer_protocol(f, name, enabled, settings)
    ELSE YAMLConfigManager_update_output(f, name, enabled, settings)

RECURSIVE UpdateEach(_, _, _, _, _)
\* `for name, settings in updates.items(): yaml_manager.update_x(name, enabled, rest)`
UpdateEach(f, es, i, rets, method) ==
  IF i > Len(es) THEN Resp(200, TRUE, f, rets, PyNone)
  ELSE IF ~IsDict(es[i].v) THEN Resp(500, FALSE, f, rets, PyNone)
  ELSE LET r == CallUpdate(method, f, es[i].k, DictGetOr(es[i].v, "enabled", PyBool(FALSE)),
                           OtherSettings(es[i].v))
       IN  UpdateEach(r.file, es, i + 1, Append(rets, r.ret), method)

UpdateAll(f, updates, method) ==
  IF ~Truthy(updates) THEN Resp(400, FALSE, f, << >>, PyNone)
  ELSE IF f.f = "missing" THEN Resp(404, FALSE, f, << >>, PyNone)
  ELSE IF ~IsDict(updates) THEN Resp(500, FALSE, f, << >>, PyNone)
  ELSE UpdateEach(f, updates.kv, 1, << >>, method)

SuricataConfigAPI_update_app_layer_config(f, payload) ==
  UpdateAll(f, DictGetOr(payload, "protocols", EmptyDict), "update_app_layer_protocol")

SuricataConfigAPI_update_outputs_config(f, payload) ==
  UpdateAll(f, DictGetOr(payload, "outputs", EmptyDict), "update_output")

\* payload.get(key) or {}
GetOrEmpty(payload, key) ==
  LET x == DictGetOr(payload, key, PyNone) IN IF Truthy(x) THEN x ELSE EmptyDict

CaptureDefaults(capture_type) ==
  CASE capture_type = "af-packet" ->
         PyDict(<<E("interface", PyStr("eth0")), E("threads", PyStr("auto")),
                  E("cluster-id", PyInt(99)), E("cluster-type", PyStr("cluster_flow")),
                  E("defrag", PyBool(TRUE)), E("use-mmap", PyBool(TRUE)),
                  E("tpacket-v3", PyBool(TRUE)), E("promisc", PyBool(TRUE))>>)
    [] capture_type = "af-xdp" ->
         PyDict(<<E("interface", PyStr("eth0")), E("threads", PyStr("auto")),
                  E("enable-busy-poll", PyBool(TRUE)), E("busy-poll-time", PyInt(20)),
                  E("busy-poll-budget", PyInt(64))>>)
    [] capture_type = "dpdk" ->
         PyDict(<<E("eal-params", PyDict(<<E("proc-type", PyStr("primary"))>>)),
                  E("interfaces", EmptyList)>>)
    [] capture_type = "pcap" -> PyDict(<<E("interface", PyStr("eth0"))>>)
    [] OTHER -> EmptyDict

\* the handler calls yaml_manager.get_packet_capture_config, and the lookup of
\* a method the class does not define raises AttributeError
SuricataConfigAPI_get_packet_capture_config(f, capture_type) ==
  IF f.f = "missing" THEN Resp(200, TRUE, f, << >>, CaptureDefaults(capture_type))
  ELSE IF "get_packet_capture_config" \notin YAMLConfigManagerMethods
    THEN Resp(500, FALSE, f, << >>, PyNone)
  ELSE LET r == CaptureConfig_get_packet_capture_config(f, capture_type) IN
    IF r.raised # "" THEN Resp(500, FALSE, f, << >>, PyNone)
    ELSE Resp(200, TRUE, f, << >>, IF Truthy(r.val) THEN r.val ELSE EmptyDict)

SuricataConfigAPI_update_packet_capture_config(f, capture_type, payload) ==
  LET settings == GetOrEmpty(payload, "config") IN
  IF ~IsDict(settings) \/ ~Truthy(settings) THEN Resp(400, FALSE, f, << >>, PyNone)
  ELSE IF f.f = "missing" THEN Resp(404, FALSE, f, << >>, PyNone)
  ELSE IF "update_packet_capture_config" \notin YAMLConfigManagerMethods
    THEN Resp(500, FALSE, f, << >>, PyNone)
  ELSE CheckedPost(f, TRUE, CaptureConfig_update_packet_capture_config(f, capture_type, settings))

SuricataConfigAPI_update_af_packet_config(f, payload) ==
  LET settings == GetOrEmpty(payload, "af_packet") IN
  CheckedPost(f, IsDict(settings) /\ Truthy(settings),
              YAMLConfigManager_update_af_packet_config(f, settings))

SuricataConfigAPI_update_stream_config(f, payload) ==
  LET settings == GetOrEmpty(payload, "stream") IN
  CheckedPost(f, IsDict(settings) /\ Truthy(settings),
              YAMLConfigManager_update_stream(f, settings))

SuricataConfigAPI_update_vars_config(f, payload) ==
  LET vars_settings == DictGetOr(payload, "vars", PyNone) IN
  CheckedPost(f, IsDict(vars_settings), YAMLConfigManager_update_vars(f, vars_settings))

SuricataConfigAPI_update_logging_config(f, payload) ==
  LET logging_settings == DictGetOr(payload, "logging", EmptyDict) IN
  UncheckedPost(f, Truthy(logging_settings), YAMLConfigManager_update_logging(f, logging_settings))

SuricataConfigAPI_update_detection_config(f, payload) ==
  LET detection_settings == DictGetOr(payload, "detection", EmptyDict) IN
  UncheckedPost(f, Truthy(detection_settings),
                YAMLConfigManager_update_detection(f, detection_settings))

SuricataConfigAPI_update_host_config(f, payload) ==
  LET host_settings == DictGetOr(payload, "host", EmptyDict) IN
  UncheckedPost(f, Truthy(host_settings), YAMLConfigManager_update_host(f, host_settings))

SuricataConfigAPI_update_ips_config(f, payload) ==
  LET ips_settings == DictGetOr(payload, "ips", EmptyDict) IN
  UncheckedPost(f, Truthy(ips_settings), YAMLConfigManager_update_ips(f, ips_settings))

SuricataConfigAPI_update_interfaces_config(f, payload) ==
  UncheckedPost(f, TRUE,
                YAMLConfigManager_update_interfaces(f, DictGetOr(payload, "interfaces", EmptyList)))

(***************************************************************************)
(* Files the system may find on disk, and the arguments callers pass       *)
(***************************************************************************)
\* a configuration with every section in its documented shape
TypicalFile ==
  Doc(NMap(<<
    E("vars", NMap(<<E("HOME_NET", Plain("any"))>>)),
    E("af-packet", NSeq(<<
        NMap(<<E("interface", Plain("eth0")), E("cluster-id", Plain("99"))>>),
        NMap(<<E("interface", Plain("eth1")), E("copy-mode", Plain("ips")),
               E("use-mmap", Plain("true"))>>)>>)),
    E("pcap", NSeq(<<NMap(<<E("interface", Plain("eth2"))>>)>>)),
    E("dpdk", NMap(<<E("eal-params", Plain("~")),
                     E("interfaces", NSeq(<<NMap(<<E("interface", Quoted("0"))>>)>>))>>)),
    E("app-layer", NMap(<<E("protocols", NMap(<<
        E("http", NMap(<<E("enabled", Plain("yes")), E("request-body-limit", Plain("1"))>>)),
        E("tls", NMap(<<E("enabled", Plain("True"))>>))>>))>>)),
    E("outputs", NSeq(<<
        NMap(<<E("fast", NMap(<<E("enabled", Plain("no")), E("filename", Plain("fast.log"))>>))>>),
        NMap(<<E("stats", Plain("on"))>>),
        NMap(<<E("fast", NMap(<<E("enabled", Plain("yes"))>>))>>)>>)),
    E("stream", NMap(<<E("memcap", Plain("32mb")),
                       E("reassembly", NMap(<<E("depth", Plain("1mb")),
                                              E("memcap", Plain("64mb"))>>))>>)),
    E("host", NMap(<<E("memcap", Plain("32mb"))>>)),
    E("logging", NMap(<<E("default-log-level", Plain("notice"))>>)),
    E("mpm-algo", Plain("auto")),
    E("default-rule-action", Quoted("no"))>>))

\* a configuration that holds only one section
SparseFile ==
  Doc(NMap(<<E("vars", NMap(<<E("HOME_NET", Plain("any")), E("PADDED", Quoted(" yes ")),
                              E("BLANK", Quoted("")), E("DIGIT", Quoted("1")),
                              E("TILDE", Quoted("~")), E("WORD", Quoted("Off")),
                              E("FLAG", Plain("OFF")), E("NOTHING", Plain(""))>>))>>))

\* sections present with a null or a non-mapping value
OddFile ==
  Doc(NMap(<<
    E("app-layer", Plain("")),
    E("outputs", Plain("none")),
    E("af-packet", NSeq(<< >>)),
    E("af-xdp", Plain("off")),
    E("dpdk", NSeq(<<Plain("eth0")>>)),
    E("vars", Plain("~")),
    E("stream", Plain("null")),
    E("host", NSeq(<<Plain("1")>>)),
    E("logging", Plain("2560"))>>))

\* sequences whose entries are not mappings, and mappings nested in them
MixedFile ==
  Doc(NMap(<<
    E("af-packet", NSeq(<<Plain("eth0"),
                          NMap(<<E("interface", Plain("eth1")), E("copy-mode", Plain("tap")),
                                 E("copy-iface", Plain("eth0"))>>)>>)),
    E("af-xdp", NSeq(<<NMap(<<E("interface", Plain("eth3")), E("threads", Plain("1"))>>)>>)),
    E("app-layer", NMap(<<E("protocols", NMap(<<E("http", Plain("yes"))>>))>>)),
    E("outputs", NSeq(<<NMap(<<E("stats", Plain("No"))>>),
                        Plain("fast"),
                        NMap(<<E("stats", NMap(<<E("enabled", Plain("yes"))>>))>>)>>)),
    E("stream", NMap(<<E("reassembly", Plain("yes"))>>)),
    E("detect", NMap(<<E("profile", Plain("medium"))>>)),
    E("nfq", NMap(<<E("mode", Plain("accept"))>>))>>))

\* a well-formed file whose root is a sequence
ListRootFile == Doc(NSeq(<<Plain("detect"), Plain("outputs")>>))

\* a well-formed file whose root is a scalar
ScalarRootFile == Doc(Plain("99"))

\* a file holding only a null document
NullRootFile == Doc(Plain("~"))

InitFiles ==
  {Missing, EmptyFile, TypicalFile, SparseFile, OddFile, MixedFile, ListRootFile,
   ScalarRootFile, NullRootFile}

ProtocolNames == {"http", "dns"}

EnabledInputs == {PyBool(TRUE), PyBool(FALSE), PyStr("On"), PyStr("0")}

\* a mapping whose value nothing can serialize
UnsavableSettings == PyDict(<<E("handle", PyObj)>>)

ProtocolSettings ==
  {PyNone, PyDict(<<E("request-body-limit", PyInt(99))>>), PyStr("x"), UnsavableSettings,
   PyDict(<<E("enabled", PyStr("maybe")), E("request-body-limit", PyInt(99))>>)}

CaptureTypes == {"af-packet", "af-xdp", "dpdk", "pcap", "netmap", "vars"}

CaptureSettings ==
  {PyDict(<<E("interface", PyStr("eth9")), E("use-mmap", PyBool(TRUE))>>), PyNone}

InterfaceLists ==
  {EmptyList,
   PyList(<<PyDict(<<E("type", PyStr("af-packet")), E("interface", PyStr("eth0")),
                     E("enabled", PyBool(TRUE))>>),
            PyDict(<<E("type", PyStr("af-packet")), E("interface", PyStr("eth1")),
                     E("threads", PyInt(1)), E("enabled", PyBool(FALSE))>>)>>),
   PyList(<<PyDict(<<E("type", PyStr("dpdk")), E("interface", PyStr("0")),
                     E("enabled", PyStr("yes"))>>),
            PyDict(<<E("type", PyStr("pcap")), E("interface", PyStr("eth2"))>>),
            PyDict(<<E("type", PyStr("af-xdp")), E("interface", PyStr("eth3")),
                     E("enabled", PyInt(1))>>)>>),
   PyList(<<PyStr("eth0")>>),
   PyNone}

StreamSettings ==
  {PyDict(<<E("reassembly", PyDict(<<E("depth", PyStr("2mb"))>>)), E("inline", PyStr("yes"))>>),
   PyDict(<<E("memcap", PyStr("64mb")), E("reassembly", PyStr("off"))>>),
   PyNone}

DetectionSettings ==
  {PyDict(<<E("mpm-algo", PyStr("ac"))>>),
   PyDict(<<E("detect", PyDict(<<E("profile", PyStr("high"))>>)),
            E("vars", PyDict(<<E("HOME_NET", PyStr("none"))>>))>>),
   EmptyDict,
   PyList(<<PyStr("mpm-algo")>>)}

VarsInputs ==
  {PyDict(<<E("EXTERNAL_NET", PyStr("any"))>>), EmptyDict, PyNone, UnsavableSettings}

VarNames == {"HOME_NET", "HTTP_PORTS"}

VarValues == {PyStr("1"), PyStr("no")}

OutputNames == {"fast", "stats", "eve-log"}

OutputSettings ==
  {PyNone, PyDict(<<E("filetype", PyStr("regular"))>>),
   PyDict(<<E("enabled", PyStr("maybe")), E("filetype", PyStr("regular"))>>)}

SectionSettings == {PyDict(<<E("memcap", PyStr("16mb")), E("prealloc", PyInt(1))>>), PyNone}

IpsSettings ==
  {PyDict(<<E("default-rule-action", PyStr("drop")),
            E("action-order", PyList(<<PyStr("pass"), PyStr("drop")>>))>>),
   PyDict(<<E("af-packet-copy-mode", PyStr("ips")), E("af-packet-copy-iface", PyStr("eth1"))>>),
   PyDict(<<E("af-packet-copy-mode", PyStr("tap")), E("netmap", PyBool(FALSE))>>),
   PyNone}

\* documents a caller may hand to save directly
SaveInputs ==
  {EmptyDict,
   PyDict(<<E("vars", PyDict(<<E("flag", PyBool(TRUE)), E("word", PyStr("yes")),
                               E("blank", PyStr("")), E("padded", PyStr(" yes ")),
                               E("count", PyInt(1)), E("digits", PyStr("1")),
                               E("nothing", PyNone)>>)),
            E("list", PyList(<<PyBool(FALSE), PyStr("Off"), PyStr("~")>>))>>),
   PyDict(<<E("vars", PyDict(<<E("flag", PyBool(TRUE))>>)), E("handle", PyObj)>>),
   PyList(<<PyBool(TRUE)>>)}

(***************************************************************************)
(* The state machine.  `file` is the configuration file; `last` records    *)
(* the last call: its name, its kind, the file it found, its arguments and *)
(* its result.  `nops` counts the calls made.                              *)
(***************************************************************************)
MaxOps == 1

NoCall == [op |-> "none", kind |-> "none", pre |-> Missing, args |-> << >>, res |-> PyNone]

Init ==
  /\ file \in InitFiles
  /\ last = NoCall
  /\ nops = 0
  /\ pc = << >>
  /\ loaded = << >>
  /\ order = << >>
  /\ NoLimiter /\ NoMonitor

\* one call: it finds `file`, leaves f2 and returns res
Call(op, kind, args, res, f2) ==
  /\ nops < MaxOps
  /\ nops' = nops + 1
  /\ last' = [op |-> op, kind |-> kind, pre |-> file, args |-> args, res |-> res]
  /\ file' = f2
  /\ UNCHANGED <<pc, loaded, order, limiterVars, monitorVars>>

Update(op, args, r) == Call(op, "update", args, r, r.file)

Get(op, args, r) == Call(op, "get", args, r, file)

UpdateProtocol ==
  \E p \in ProtocolNames, en \in EnabledInputs, s \in ProtocolSettings :
    Update("update_protocol", <<PyStr(p), en, s>>, AppLayerConfig_update_protocol(file, p, en, s))

UpdatePacketCapture ==
  \E ct \in CaptureTypes, s \in CaptureSettings :
    Update("update_packet_capture_config", <<PyStr(ct), s>>,
           CaptureConfig_update_packet_capture_config(file, ct, s))

UpdateAfPacket ==
  \E s \in CaptureSettings :
    Update("update_af_packet_config", <<s>>, CaptureConfig_update_af_packet_config(file, s))

UpdateInterfaces ==
  \E is \in InterfaceLists :
    Update("update_interfaces", <<is>>, CaptureConfig_update_interfaces(file, is))

UpdateStream ==
  \E s \in StreamSettings :
    Update("update_stream", <<s>>, EngineConfig_update_stream(file, s))

UpdateDetection ==
  \E s \in DetectionSettings :
    Update("update_detection", <<s>>, EngineConfig_update_detection(file, s))

UpdateVars ==
  \E v \in VarsInputs : Update("update_vars", <<v>>, SystemConfig_update_vars(file, v))

UpdateVar ==
  \E n \in VarNames, v \in VarValues :
    Update("update_var", <<PyStr(n), v>>, SystemConfig_update_var(file, n, v))

UpdateOutput ==
  \E n \in OutputNames, en \in EnabledInputs, s \in OutputSettings :
    Update("update_output", <<PyStr(n), en, s>>, SystemConfig_update_output(file, n, en, s))

UpdateLogging ==
  \E s \in SectionSettings :
    Update("update_logging", <<s>>, SystemConfig_update_logging(file, s))

UpdateHost ==
  \E s \in SectionSettings : Update("update_host", <<s>>, SystemConfig_update_host(file, s))

UpdateIps ==
  \E s \in IpsSettings : Update("update_ips", <<s>>, IPSConfig_update_ips(file, s))

GetProtocols == Get("get_protocols", << >>, AppLayerConfig_get_protocols(file))

GetPacketCapture ==
  \E ct \in CaptureTypes :
    Get("get_packet_capture_config", <<PyStr(ct)>>,
        CaptureConfig_get_packet_capture_config(file, ct))

GetInterfaces == Get("get_interfaces", << >>, CaptureConfig_get_interfaces(file))

GetStream == Get("get_stream", << >>, EngineConfig_get_stream(file))

GetDetection == Get("get_detection", << >>, EngineConfig_get_detection(file))

GetVars == Get("get_vars", << >>, SystemConfig_get_vars(file))

GetOutputs == Get("get_outputs", << >>, SystemConfig_get_outputs(file))

GetLogging == Get("get_logging", << >>, SystemConfig_get_logging(file))

GetHost == Get("get_host", << >>, SystemConfig_get_host(file))

GetIps == Get("get_ips", << >>, IPSConfig_get_ips(file))

\* ConfigFile.save called with a document of the caller's
Save ==
  \E config \in SaveInputs :
    LET r == ConfigFile_save(file, config)
    IN  Call("save", "save", <<config>>,
             [ret |-> r.ret, file |-> r.file, raised |-> "", saved |-> config], r.file)

\* save(load(path)): the loaded document is written back unchanged
Resave ==
  /\ ConfigFile_load(file).raised = ""
  /\ LET config == ConfigFile_load(file).val
         r == ConfigFile_save(file, config)
     IN  Call("resave", "save", <<config>>,
              [ret |-> r.ret, file |-> r.file, raised |-> "", saved |-> config], r.file)

Next ==
  \/ UpdateProtocol \/ UpdatePacketCapture \/ UpdateAfPacket \/ UpdateInterfaces
  \/ UpdateStream \/ UpdateDetection \/ UpdateVars \/ UpdateVar \/ UpdateOutput
  \/ UpdateLogging \/ UpdateHost \/ UpdateIps
  \/ GetProtocols \/ GetPacketCapture \/ GetInterfaces \/ GetStream \/ GetDetection
  \/ GetVars \/ GetOutputs \/ GetLogging \/ GetHost \/ GetIps
  \/ Save \/ Resave

Spec == Init /\ [][Next]_vars

(***************************************************************************)
(* The HTTP layer and the class it holds                                   *)
(***************************************************************************)
FacadeUpdate(op, args, r) == Call(op, "facade_update", args, r, r.file)

FacadeGet(op, args, r) == Call(op, "facade_get", args, r, file)

FacadeUpdateOps ==
  {"update_protocol", "update_af_packet_config", "update_interfaces", "update_stream",
   "update_detection", "update_vars", "update_var", "update_output", "update_logging",
   "update_host", "update_ips"}

FacadeGetOps ==
  {"get_protocols", "get_af_packet_config", "get_interfaces", "get_stream", "get_detection",
   "get_vars", "get_outputs", "get_logging", "get_host", "get_ips"}

\* the arguments a caller may pass to an update method
UpdateArgs(op) ==
  CASE op = "update_protocol" ->
         {<<PyStr(p), en, s>> : p \in ProtocolNames, en \in EnabledInputs, s \in ProtocolSettings}
    [] op = "update_af_packet_config" -> {<<s>> : s \in CaptureSettings}
    [] op = "update_interfaces" -> {<<is>> : is \in InterfaceLists}
    [] op = "update_stream" -> {<<s>> : s \in StreamSettings}
    [] op = "update_detection" -> {<<s>> : s \in DetectionSettings}
    [] op = "update_vars" -> {<<v>> : v \in VarsInputs}
    [] op = "update_var" -> {<<PyStr(n), v>> : n \in VarNames, v \in VarValues}
    [] op = "update_output" ->
         {<<PyStr(n), en, s>> : n \in OutputNames, en \in EnabledInputs, s \in OutputSettings}
    [] op \in {"update_logging", "update_host"} -> {<<s>> : s \in SectionSettings}
    [] OTHER -> {<<s>> : s \in IpsSettings}

\* YAMLConfigManager's update method of that name
YAMLConfigManager_update(op, f, args) ==
  CASE op = "update_protocol" ->
         YAMLConfigManager_update_app_layer_protocol(f, args[1].s, args[2], args[3])
    [] op = "update_af_packet_config" -> YAMLConfigManager_update_af_packet_config(f, args[1])
    [] op = "update_interfaces" -> YAMLConfigManager_update_interfaces(f, args[1])
    [] op = "update_stream" -> YAMLConfigManager_update_stream(f, args[1])
    [] op = "update_detection" -> YAMLConfigManager_update_detection(f, args[1])
    [] op = "update_vars" -> YAMLConfigManager_update_vars(f, args[1])
    [] op = "update_var" -> YAMLConfigManager_update_var(f, args[1].s, args[2])
    [] op = "update_output" -> YAMLConfigManager_update_output(f, args[1].s, args[2], args[3])
    [] op = "update_logging" -> YAMLConfigManager_update_logging(f, args[1])
    [] op = "update_host" -> YAMLConfigManager_update_host(f, args[1])
    [] OTHER -> YAMLConfigManager_update_ips(f, args[1])

\* YAMLConfigManager's read method of that name
YAMLConfigManager_get(op, f) ==
  CASE op = "get_protocols" -> YAMLConfigManager_get_app_layer_protocols(f)
    [] op = "get_af_packet_config" -> YAMLConfigManager_get_af_packet_config(f)
    [] op = "get_interfaces" -> YAMLConfigManager_get_interfaces(f)
    [] op = "get_stream" -> YAMLConfigManager_get_stream(f)
    [] op = "get_detection" -> YAMLConfigManager_get_detection(f)
    [] op = "get_vars" -> YAMLConfigManager_get_vars(f)
    [] op = "get_outputs" -> YAMLConfigManager_get_outputs(f)
    [] op = "get_logging" -> YAMLConfigManager_get_logging(f)
    [] op = "get_host" -> YAMLConfigManager_get_host(f)
    [] OTHER -> YAMLConfigManager_get_ips(f)

\* a caller holding the YAMLConfigManager calls one of its update methods
FacadeUpdateCall ==
  \E op \in FacadeUpdateOps : \E args \in UpdateArgs(op) :
    FacadeUpdate(op, args, YAMLConfigManager_update(op, file, args))

\* a caller holding the YAMLConfigManager calls one of its read methods
FacadeGetCall ==
  \E op \in FacadeGetOps : FacadeGet(op, << >>, YAMLConfigManager_get(op, file))

\* request bodies: {key: settings}, and a body without the key
Payloads(key, settings) == {PyDict(<<E(key, x)>>) : x \in settings} \cup {EmptyDict}

Post(op, payload, r) == Call(op, "http_post", <<payload>>, r, r.file)

ProtocolUpdates ==
  {PyDict(<<E("http", PyDict(<<E("enabled", PyStr("no"))>>)),
            E("dns", PyDict(<<E("enabled", PyBool(TRUE)), E("request-body-limit", PyInt(99))>>))>>),
   PyDict(<<E("dns", PyDict(<<E("enabled", PyBool(TRUE))>>)), E("http", PyStr("yes"))>>)}

OutputUpdates ==
  {PyDict(<<E("fast", PyDict(<<E("enabled", PyBool(TRUE))>>)),
            E("eve-log", PyDict(<<E("filetype", PyStr("regular"))>>))>>)}

PostAppLayer ==
  \E payload \in Payloads("protocols", ProtocolUpdates) :
    Post("post_app_layer", payload, SuricataConfigAPI_update_app_layer_config(file, payload))

PostOutputs ==
  \E payload \in Payloads("outputs", OutputUpdates) :
    Post("post_outputs", payload, SuricataConfigAPI_update_outputs_config(file, payload))

PostPacketCapture ==
  \E ct \in CaptureTypes, payload \in Payloads("config", CaptureSettings) :
    Call("post_packet_capture", "http_post", <<payload, PyStr(ct)>>,
         SuricataConfigAPI_update_packet_capture_config(file, ct, payload),
         SuricataConfigAPI_update_packet_capture_config(file, ct, payload).file)

PostAfPacket ==
  \E payload \in Payloads("af_packet", CaptureSettings) :
    Post("post_af_packet", payload, SuricataConfigAPI_update_af_packet_config(file, payload))

PostStream ==
  \E payload \in Payloads("stream", StreamSettings) :
    Post("post_stream", payload, SuricataConfigAPI_update_stream_config(file, payload))

PostVars ==
  \E payload \in Payloads("vars", VarsInputs) :
    Post("post_vars", payload, SuricataConfigAPI_update_vars_config(file, payload))

PostLogging ==
  \E payload \in Payloads("logging", SectionSettings) :
    Post("post_logging", payload, SuricataConfigAPI_update_logging_config(file, payload))

PostDetection ==
  \E payload \in Payloads("detection", DetectionSettings) :
    Post("post_detection", payload, SuricataConfigAPI_update_detection_config(file, payload))

PostHost ==
  \E payload \in Payloads("host", SectionSettings) :
    Post("post_host", payload, SuricataConfigAPI_update_host_config(file, payload))

PostIps ==
  \E payload \in Payloads("ips", IpsSettings) :
    Post("post_ips", payload, SuricataConfigAPI_update_ips_config(file, payload))

PostInterfaces ==
  \E payload \in Payloads("interfaces", InterfaceLists) :
    Post("post_interfaces", payload, SuricataConfigAPI_update_interfaces_config(file, payload))

GetPacketCaptureHttp ==
  \E ct \in CaptureTypes :
    Call("http_get_packet_capture", "http_get", <<PyStr(ct)>>,
         SuricataConfigAPI_get_packet_capture_config(file, ct), file)

NextFacade ==
  \/ FacadeUpdateCall \/ FacadeGetCall
  \/ PostAppLayer \/ PostOutputs \/ PostPacketCapture \/ PostAfPacket \/ PostStream
  \/ PostVars \/ PostLogging \/ PostDetection \/ PostHost \/ PostIps \/ PostInterfaces
  \/ GetPacketCaptureHttp

SpecFacade == Init /\ [][NextFacade]_vars

(***************************************************************************)
(* Two callers running load-mutate-save cycles on the same file.  Nothing  *)
(* locks the file: a cycle is a load (with the mutation done in memory),   *)
(* the open for writing, and the dump.                                     *)
(***************************************************************************)
Procs == {1, 2}

\* caller 1 runs EngineConfig.update_stream, caller 2 SystemConfig.update_vars
RaceKey(p) == IF p = 1 THEN "stream" ELSE "vars"

RaceArgs(p) == IF p = 1 THEN StreamSettings ELSE VarsInputs

Cycle(arg) ==
  [arg |-> arg, seen |-> PyNone, doc |-> PyNone, ret |-> FALSE, saves_before |-> 0]

\* last.pre keeps the file both callers start from
InitRace ==
  /\ file \in InitFiles
  /\ last = [NoCall EXCEPT !.pre = file]
  /\ nops = 0
  /\ pc = [p \in Procs |-> "load"]
  /\ \E s \in RaceArgs(1), v \in RaceArgs(2) : loaded = <<Cycle(s), Cycle(v)>>
  /\ order = << >>
  /\ NoLimiter /\ NoMonitor

RaceBody(p, config) ==
  IF p = 1 THEN update_stream_body(config, loaded[p].arg)
           ELSE update_vars_body(config, loaded[p].arg)

\* config = self._file.load() and the mutation of the in-memory document;
\* an exception ends the call with False
RaceLoad(p) ==
  /\ p \in DOMAIN pc
  /\ pc[p] = "load"
  /\ LET config == ConfigFile_load(file)
         r == Then(config, LAMBDA c : RaceBody(p, c))
     IN  IF r.raised # ""
           THEN /\ pc' = [pc EXCEPT ![p] = "done"]
                /\ loaded' = [loaded EXCEPT ![p].ret = FALSE]
           ELSE /\ pc' = [pc EXCEPT ![p] = "open"]
                /\ loaded' = [loaded EXCEPT ![p].seen = config.val, ![p].doc = r.val,
                                            ![p].saves_before = Len(order)]
  /\ UNCHANGED <<file, last, nops, order, limiterVars, monitorVars>>

\* save: open(path, "w")
RaceOpen(p) ==
  /\ p \in DOMAIN pc
  /\ pc[p] = "open"
  /\ file' = OpenForWrite(file)
  /\ pc' = [pc EXCEPT ![p] = "write"]
  /\ UNCHANGED <<last, nops, loaded, order, limiterVars, monitorVars>>

\* save: yaml.dump into the open file, and the return
RaceWrite(p) ==
  /\ p \in DOMAIN pc
  /\ pc[p] = "write"
  /\ LET s == DumpInto(file, loaded[p].doc)
     IN  /\ file' = s.file
         /\ loaded' = [loaded EXCEPT ![p].ret = s.ret]
  /\ pc' = [pc EXCEPT ![p] = "done"]
  /\ order' = Append(order, p)
  /\ UNCHANGED <<last, nops, limiterVars, monitorVars>>

NextRace == \E p \in Procs : RaceLoad(p) \/ RaceOpen(p) \/ RaceWrite(p)

SpecRace == InitRace /\ [][NextRace]_vars

(***************************************************************************)
(* Properties of the section managers and of ConfigFile                    *)
(***************************************************************************)
Before == ConfigFile_load(last.pre).val

After == ConfigFile_load(file).val

KeysOf(d) == IF IsDict(d) THEN DictKeys(d) ELSE {}

RootEntry(d, key) ==
  IF IsDict(d) /\ DictHas(d, key) THEN [has |-> TRUE, v |-> DictGet(d, key)]
                                  ELSE [has |-> FALSE, v |-> PyNone]

\* C1: a public mutation method never propagates an exception; whenever
\* loading, mutating or saving raised, the method returned false (and a call
\* that failed before its save left the file alone).
C1_UpdatesNeverRaise ==
  last.kind = "update" =>
    /\ last.res.raised = ""
    /\ (ConfigFile_load(last.pre).raised # "" => ~last.res.ret)
    /\ (last.res.saved = PyNone => ~last.res.ret /\ file = last.pre)
    /\ (last.res.saved # PyNone /\ ~Representable(last.res.saved) => ~last.res.ret)

\* an update whose mutation raised on an existing file of unexpected shape
C1_Witness ==
  /\ last.kind = "update"
  /\ last.op = "update_output"
  /\ last.pre = OddFile
  /\ last.res.saved = PyNone
  /\ ~last.res.ret

\* C2: a public read method raises FileNotFoundError when the file does not
\* exist and otherwise returns a mapping (a sequence for get_interfaces),
\* raising nothing else.
C2_ReadsTotal ==
  last.kind = "get" =>
    IF last.pre = Missing
      THEN last.res.raised = "FileNotFoundError"
      ELSE /\ last.res.raised = ""
           /\ IF last.op = "get_interfaces" THEN IsList(last.res.val)
                                            ELSE IsDict(last.res.val)

\* C7: saving the document loaded from a well-formed file and loading the
\* file again yields the same tree, mapping key order included.
C7_RoundTrip ==
  last.op = "resave" =>
    /\ last.res.ret
    /\ ConfigFile_load(file) = Ok(last.args[1])
    /\ ConfigFile_load(file) = ConfigFile_load(last.pre)

\* a round trip that rewrote the text of the file (True became yes)
C7_Witness ==
  /\ last.op = "resave"
  /\ last.pre = TypicalFile
  /\ file # last.pre
  /\ last.res.ret

RECURSIVE BoolsAsYesNo(_, _)
\* every bool of the value x stands in the node tree as the plain scalar yes or no
BoolsAsYesNo(x, node) ==
  CASE x.t = "bool" ->
         /\ node.n = "scalar"
         /\ node.style = "plain"
         /\ node.text = (IF x.b THEN "yes" ELSE "no")
    [] x.t = "list" ->
         /\ node.n = "seq"
         /\ DOMAIN node.items = DOMAIN x.items
         /\ \A i \in DOMAIN x.items : BoolsAsYesNo(x.items[i], node.items[i])
    [] x.t = "dict" ->
         /\ node.n = "map"
         /\ DOMAIN node.kv = DOMAIN x.kv
         /\ \A i \in DOMAIN x.kv : BoolsAsYesNo(x.kv[i].v, node.kv[i].v)
    [] OTHER -> TRUE

RECURSIVE BoolDepth(_)
\* the depth of the deepest bool of x, 0 when x holds none
BoolDepth(x) ==
  LET Deepest(S) == IF S = {} THEN 0 ELSE 1 + CHOOSE m \in S : \A n \in S : n <= m
  IN  CASE x.t = "bool" -> 1
        [] x.t = "list" -> Deepest({BoolDepth(x.items[i]) : i \in DOMAIN x.items} \ {0})
        [] x.t = "dict" -> Deepest({BoolDepth(x.kv[i].v) : i \in DOMAIN x.kv} \ {0})
        [] OTHER -> 0

\* C8: in a document written by save, directly or by a section manager,
\* every boolean at any depth is the literal scalar yes or no.
C8_BoolsYesNo ==
  (last.kind \in {"update", "save"} /\ last.res.ret) =>
    /\ file.f = "yaml"
    /\ BoolsAsYesNo(last.res.saved, file.root)

\* update_protocol wrote a document with booleans four levels down
C8_Witness ==
  /\ last.op = "update_protocol"
  /\ last.res.ret
  /\ BoolDepth(last.res.saved) >= 5
  /\ file.f = "yaml"

\* C9: a save that fails while serializing returns false and leaves the file
\* with the contents it had before the call.
C9_FailedSaveKeepsFile ==
  (last.kind = "save" /\ last.pre.f = "yaml" /\ ~Representable(last.args[1])) =>
    /\ ~last.res.ret
    /\ file = last.pre

\* the root keys the spec assigns to the manager of an update method
ManagerKeys(op) ==
  CASE op = "update_protocol" -> {"app-layer"}
    [] op \in {"update_packet_capture_config", "update_af_packet_config", "update_interfaces"} ->
         {"af-packet", "af-xdp", "dpdk", "pcap"}
    [] op \in {"update_stream", "update_detection"} ->
         {"stream", "detect", "threading", "profiling", "mpm-algo", "sgh-mpm-context"}
    [] op \in {"update_vars", "update_var", "update_output", "update_logging", "update_host"} ->
         {"vars", "outputs", "logging", "host"}
    [] OTHER -> {"action-order", "default-rule-action", "nfq", "netmap", "af-packet"}

\* the root keys a call writes, given its arguments
WrittenKeys(op, args) ==
  CASE op = "update_packet_capture_config" -> {args[1].s}
    [] op = "update_af_packet_config" -> {"af-packet"}
    [] op = "update_stream" -> {"stream"}
    [] op = "update_detection" -> KeysOf(args[1])
    [] OTHER -> ManagerKeys(op)

CopyFields == {"copy-mode", "copy-iface"}

WithoutCopyFields(entry) == DictWithout(DictWithout(entry, "copy-mode"), "copy-iface")

\* what update_ips may do to af-packet: nothing unless af-packet-copy-mode is
\* given; then create it as one entry holding the copy fields, or set the copy
\* fields of the first entry (a first entry that is no mapping starts empty)
IpsAfPacketFrame(before, after, settings) ==
  LET b == RootEntry(before, "af-packet")
      a == RootEntry(after, "af-packet")
  IN  IF ~(IsDict(settings) /\ DictHas(settings, "af-packet-copy-mode")) THEN a = b
      ELSE IF ~b.has
        THEN /\ a.has /\ IsList(a.v) /\ Len(a.v.items) = 1
             /\ IsDict(a.v.items[1]) /\ DictKeys(a.v.items[1]) \subseteq CopyFields
      ELSE IF IsList(b.v) /\ b.v.items # << >>
        THEN /\ a.has /\ IsList(a.v) /\ Len(a.v.items) = Len(b.v.items)
             /\ \A i \in 2..Len(b.v.items) : a.v.items[i] = b.v.items[i]
             /\ IsDict(a.v.items[1])
             /\ WithoutCopyFields(a.v.items[1]) =
                  (IF IsDict(b.v.items[1]) THEN WithoutCopyFields(b.v.items[1]) ELSE EmptyDict)
      ELSE a = b

\* every root key outside `keys` has the value it had before the call
FrameOutside(keys) ==
  /\ \A k \in (KeysOf(Before) \cup KeysOf(After)) \ keys :
       RootEntry(After, k) = RootEntry(Before, k)
  /\ last.op = "update_ips" => IpsAfPacketFrame(Before, After, last.args[1])

\* C6 as stated: after a successful update, every root key outside the keys
\* owned by the calling manager has exactly the value it had before the call.
C6_OwnedSubtreeOnly ==
  (last.kind = "update" /\ last.res.ret) => FrameOutside(ManagerKeys(last.op))

\* C6: after a successful update, every root key other than the ones the call
\* writes has the value it had before: the manager's keys, but the
\* capture_type argument for update_packet_capture_config and the keys of
\* settings for update_detection; update_ips touches af-packet only to set
\* the copy fields of its first entry.
C6_WrittenKeysOnly ==
  (last.kind = "update" /\ last.res.ret) => FrameOutside(WrittenKeys(last.op, last.args))

\* update_detection given a `vars` key replaced the vars section and nothing else
C6_Witness ==
  /\ last.op = "update_detection"
  /\ last.res.ret
  /\ last.pre = TypicalFile
  /\ DictHas(last.args[1], "vars")
  /\ RootEntry(After, "vars") # RootEntry(Before, "vars")
  /\ RootEntry(After, "vars").v = DictGet(last.args[1], "vars")

(***************************************************************************)
(* Properties of concurrent update cycles                                  *)
(***************************************************************************)
BothSaved ==
  /\ \A p \in Procs : pc[p] = "done" /\ loaded[p].ret
  /\ Len(order) = 2

\* C3: update cycles are not serialized.  When the caller that saves second
\* loaded before the first save completed and both calls return true, the
\* file is exactly the second writer's document, in which the first writer's
\* section is as the second writer found it.
C3_LostUpdate ==
  (BothSaved /\ loaded[order[2]].saves_before = 0) =>
    /\ ConfigFile_load(file) = Ok(loaded[order[2]].doc)
    /\ RootEntry(After, RaceKey(order[1])) = RootEntry(loaded[order[2]].seen, RaceKey(order[1]))

\* both callers loaded the same document before either saved, both returned
\* true, and the file holds the second writer's change but not the first's
C3_Witness ==
  /\ BothSaved
  /\ loaded[1].saves_before = 0 /\ loaded[2].saves_before = 0
  /\ loaded[1].seen = loaded[2].seen
  /\ loaded[1].seen = ConfigFile_load(TypicalFile).val
  /\ RootEntry(After, RaceKey(order[2])) = RootEntry(loaded[order[2]].doc, RaceKey(order[2]))
  /\ RootEntry(After, RaceKey(order[2])) # RootEntry(loaded[1].seen, RaceKey(order[2]))
  /\ RootEntry(After, RaceKey(order[1])) # RootEntry(loaded[order[1]].doc, RaceKey(order[1]))
  /\ RootEntry(After, RaceKey(order[1])) = RootEntry(loaded[1].seen, RaceKey(order[1]))

(***************************************************************************)
(* Properties of YAMLConfigManager and of the HTTP layer                   *)
(***************************************************************************)
\* the section-manager method of the same name, on the same file and arguments
SectionUpdate(op, f, args) ==
  CASE op = "update_protocol" -> AppLayerConfig_update_protocol(f, args[1].s, args[2], args[3])
    [] op = "update_af_packet_config" -> CaptureConfig_update_af_packet_config(f, args[1])
    [] op = "update_interfaces" -> CaptureConfig_update_interfaces(f, args[1])
    [] op = "update_stream" -> EngineConfig_update_stream(f, args[1])
    [] op = "update_detection" -> EngineConfig_update_detection(f, args[1])
    [] op = "update_vars" -> SystemConfig_update_vars(f, args[1])
    [] op = "update_var" -> SystemConfig_update_var(f, args[1].s, args[2])
    [] op = "update_output" -> SystemConfig_update_output(f, args[1].s, args[2], args[3])
    [] op = "update_logging" -> SystemConfig_update_logging(f, args[1])
    [] op = "update_host" -> SystemConfig_update_host(f, args[1])
    [] OTHER -> IPSConfig_update_ips(f, args[1])

SectionGet(op, f) ==
  CASE op = "get_protocols" -> AppLayerConfig_get_protocols(f)
    [] op = "get_af_packet_config" -> CaptureConfig_get_af_packet_config(f)
    [] op = "get_interfaces" -> CaptureConfig_get_interfaces(f)
    [] op = "get_stream" -> EngineConfig_get_stream(f)
    [] op = "get_detection" -> EngineConfig_get_detection(f)
    [] op = "get_vars" -> SystemConfig_get_vars(f)
    [] op = "get_outputs" -> SystemConfig_get_outputs(f)
    [] op = "get_logging" -> SystemConfig_get_logging(f)
    [] op = "get_host" -> SystemConfig_get_host(f)
    [] OTHER -> IPSConfig_get_ips(f)

\* C4: each YAMLConfigManager method returns the same value and leaves the
\* same document on disk as the section-manager method it re-exposes.
C4_FacadeDelegates ==
  /\ last.kind = "facade_update" =>
       LET r == SectionUpdate(last.op, last.pre, last.args)
       IN  last.res.ret = r.ret /\ file = r.file
  /\ last.kind = "facade_get" =>
       LET r == SectionGet(last.op, last.pre)
       IN  /\ (last.res.raised = "") = (r.raised = "")
           /\ r.raised = "" => last.res.val = r.val

\* C5: on an existing file, the HTTP layer's get_packet_capture_config and
\* update_packet_capture_config calls on the facade are served: the read
\* answers the first entry of the type's sequence or {}, the write answers the
\* update's boolean result.
C5_PacketCaptureServed ==
  /\ (last.op = "http_get_packet_capture" /\ last.pre # Missing) =>
       LET r == CaptureConfig_get_packet_capture_config(last.pre, last.args[1].s)
       IN  r.raised = "" => last.res.success /\ last.res.body = r.val
  /\ (last.op = "post_packet_capture" /\ last.pre # Missing /\ last.res.status # 400) =>
       LET r == CaptureConfig_update_packet_capture_config(
                  last.pre, last.args[2].s, GetOrEmpty(last.args[1], "config"))
       IN  last.res.success = r.ret /\ file = r.file

\* C10: a POST answers success only if every facade update it issued
\* returned true.
C10_PostChecksReturn ==
  last.kind = "http_post" =>
    (last.res.success => \A i \in DOMAIN last.res.rets : last.res.rets[i])

(***************************************************************************)
(* Properties of single operations                                         *)
(***************************************************************************)
\* d is the mapping old overlaid with the mapping new: the keys of both, the
\* values of new where it has the key, the values of old elsewhere
IsOverlay(d, old, new) ==
  /\ IsDict(d)
  /\ DictKeys(d) = DictKeys(old) \cup DictKeys(new)
  /\ \A k \in DictKeys(new) : DictGet(d, k) = DictGet(new, k)
  /\ \A k \in DictKeys(old) \ DictKeys(new) : DictGet(d, k) = DictGet(old, k)

\* the capture type and the settings of a capture update
CaptureTypeOf(call) == IF call.op = "update_af_packet_config" THEN "af-packet" ELSE call.args[1].s

CaptureSettingsOf(call) ==
  IF call.op = "update_af_packet_config" THEN call.args[1] ELSE call.args[2]

\* C11: update_packet_capture_config never appends.  When it returns true, a
\* key that was absent or held an empty sequence holds the one-element
\* sequence [settings]; a sequence whose first element is a mapping keeps its
\* length and its other elements, the first being the old one overlaid with
\* settings.
C11_NeverAppends ==
  (last.op \in {"update_packet_capture_config", "update_af_packet_config"} /\ last.res.ret) =>
    LET b == RootEntry(Before, CaptureTypeOf(last))
        a == RootEntry(After, CaptureTypeOf(last))
        settings == CaptureSettingsOf(last)
    IN  /\ a.has /\ IsList(a.v)
        /\ (~b.has \/ b.v = EmptyList) => a.v = PyList(<<settings>>)
        /\ (b.has /\ IsList(b.v) /\ b.v # EmptyList /\ IsDict(b.v.items[1])) =>
             /\ Len(a.v.items) = Len(b.v.items)
             /\ IsOverlay(a.v.items[1], b.v.items[1], settings)
             /\ \A i \in 2..Len(b.v.items) : a.v.items[i] = b.v.items[i]

\* the first of two af-packet entries took the settings, the second stayed
C11_Witness ==
  /\ last.op = "update_packet_capture_config"
  /\ last.res.ret
  /\ last.pre = TypicalFile
  /\ last.args[1] = PyStr("af-packet")
  /\ Len(RootEntry(After, "af-packet").v.items) = 2
  /\ RootEntry(After, "af-packet").v.items[1] # RootEntry(Before, "af-packet").v.items[1]
  /\ DictGet(RootEntry(After, "af-packet").v.items[1], "cluster-id") = PyInt(99)

\* C12: get_packet_capture_config on an existing file never raises; it
\* returns the first entry of the type's sequence when that is a mapping and
\* {} otherwise.
C12_CaptureReadTotal ==
  (last.op = "get_packet_capture_config" /\ last.pre # Missing) =>
    /\ last.res.raised = ""
    /\ LET b == RootEntry(Before, last.args[1].s)
       IN  last.res.val =
             (IF b.has /\ IsList(b.v) /\ b.v # EmptyList /\ IsDict(b.v.items[1])
                THEN b.v.items[1] ELSE EmptyDict)

\* C13: after update_ips with af-packet-copy-mode in settings returns true,
\* af-packet is a non-empty sequence whose first entry is a mapping holding
\* the given copy-mode (and copy-iface when supplied).
C13_CopyModeSet ==
  (last.op = "update_ips" /\ last.res.ret /\ DictHas(last.args[1], "af-packet-copy-mode")) =>
    LET a == RootEntry(After, "af-packet")
        settings == last.args[1]
    IN  /\ a.has /\ IsList(a.v) /\ a.v # EmptyList
        /\ IsDict(a.v.items[1])
        /\ DictGetOr(a.v.items[1], "copy-mode", PyNone) = DictGet(settings, "af-packet-copy-mode")
        /\ DictHas(settings, "af-packet-copy-iface") =>
             DictGetOr(a.v.items[1], "copy-iface", PyNone) =
               DictGet(settings, "af-packet-copy-iface")

\* the entries of `outputs`, none when the key is absent
OutputsOf(d) ==
  LET e == RootEntry(d, "outputs") IN IF e.has /\ IsList(e.v) THEN e.v.items ELSE << >>

Holders(outputs, name) ==
  {i \in DOMAIN outputs : IsDict(outputs[i]) /\ DictHas(outputs[i], name)}

GivenSettings(settings) == IF Truthy(settings) THEN settings ELSE EmptyDict

\* x is old with `enabled` set to the flag and the settings merged on top
IsFlaggedOverlay(x, old, flag, settings) ==
  /\ IsDict(x)
  /\ DictKeys(x) = DictKeys(old) \cup {"enabled"} \cup DictKeys(settings)
  /\ \A k \in DictKeys(settings) : DictGet(x, k) = DictGet(settings, k)
  /\ "enabled" \notin DictKeys(settings) => DictGet(x, "enabled") = flag
  /\ \A k \in DictKeys(old) \ (DictKeys(settings) \cup {"enabled"}) : DictGet(x, k) = DictGet(old, k)

\* the upsert of update_output; Changed(new, old) says how the value of an
\* existing entry may change
IsUpsert(Changed(_, _)) ==
  LET b == OutputsOf(Before)
      a == OutputsOf(After)
      name == last.args[1].s
      flag == PyBool(to_bool(last.args[2]))
      settings == GivenSettings(last.args[3])
  IN  IF Holders(b, name) # {}
        THEN /\ Len(a) = Len(b)
             /\ \E j \in Holders(b, name) :
                  /\ \A i \in DOMAIN b \ {j} : a[i] = b[i]
                  /\ IsDict(a[j]) /\ DictKeys(a[j]) = DictKeys(b[j])
                  /\ \A k \in DictKeys(b[j]) \ {name} : DictGet(a[j], k) = DictGet(b[j], k)
                  /\ Changed(DictGet(a[j], name), DictGet(b[j], name))
        ELSE /\ Len(a) = Len(b) + 1
             /\ \A i \in DOMAIN b : a[i] = b[i]
             /\ IsDict(a[Len(a)]) /\ DictKeys(a[Len(a)]) = {name}
             /\ IsFlaggedOverlay(DictGet(a[Len(a)], name), EmptyDict, flag, settings)

\* C14 as stated: update_output is an upsert; an entry that already has the
\* name keeps its place and gets enabled set and the settings merged in,
\* otherwise one single-key mapping is appended.
C14_Upsert ==
  (last.op = "update_output" /\ last.res.ret) =>
    IsUpsert(LAMBDA new, old :
      IsFlaggedOverlay(new, IF IsDict(old) THEN old ELSE EmptyDict,
                      PyBool(to_bool(last.args[2])), GivenSettings(last.args[3])))

\* C14: update_output is an upsert; an entry that already has the name
\* keeps its place and, when its value is a mapping, gets enabled set and the
\* settings merged in, while a scalar value is replaced by the boolean alone;
\* otherwise one single-key mapping is appended.
C14_UpsertScalarReplaced ==
  (last.op = "update_output" /\ last.res.ret) =>
    IsUpsert(LAMBDA new, old :
      IF IsDict(old)
        THEN IsFlaggedOverlay(new, old, PyBool(to_bool(last.args[2])),
                             GivenSettings(last.args[3]))
        ELSE new = PyBool(to_bool(last.args[2])))

\* an existing mapping-valued entry was updated in place, between two others
C14_Witness ==
  /\ last.op = "update_output"
  /\ last.res.ret
  /\ last.pre = TypicalFile
  /\ last.args[1] = PyStr("fast")
  /\ last.args[3] = PyDict(<<E("filetype", PyStr("regular"))>>)
  /\ Len(OutputsOf(After)) = 3
  /\ OutputsOf(After)[1] # OutputsOf(Before)[1]
  /\ DictGet(DictGet(OutputsOf(After)[1], "fast"), "filename") = PyStr("fast.log")

\* `outputs` is absent or a sequence of mappings
OutputsWellShaped(d) ==
  LET e == RootEntry(d, "outputs")
  IN  ~e.has \/ (IsList(e.v) /\ \A i \in DOMAIN e.v.items : IsDict(e.v.items[i]))

\* a get_outputs() on the file as it is now shows name with the given flag
ReadsBackEnabled(name, flag) ==
  LET g == SystemConfig_get_outputs(file)
  IN  /\ g.raised = ""
      /\ IsDict(g.val) /\ DictHas(g.val, name)
      /\ IsDict(DictGet(g.val, name))
      /\ DictGetOr(DictGet(g.val, name), "enabled", PyNone) = flag

\* C15 as stated: after update_output returns true on a document whose
\* outputs is absent or a sequence of mappings, get_outputs() has the name
\* with enabled equal to to_bool(enabled).
C15_ReadYourWrites ==
  (last.op = "update_output" /\ last.res.ret /\ OutputsWellShaped(Before)) =>
    ReadsBackEnabled(last.args[1].s, PyBool(to_bool(last.args[2])))

\* C15: the same read-your-writes, for a document in which at most one entry
\* holds the name, with a mapping as its value, and for settings without an
\* `enabled` key.
C15_ReadYourWritesUnique ==
  ( /\ last.op = "update_output" /\ last.res.ret /\ OutputsWellShaped(Before)
    /\ \A i, j \in Holders(OutputsOf(Before), last.args[1].s) :
         i = j /\ IsDict(DictGet(OutputsOf(Before)[i], last.args[1].s))
    /\ ~DictHas(GivenSettings(last.args[3]), "enabled") ) =>
    ReadsBackEnabled(last.args[1].s, PyBool(to_bool(last.args[2])))

\* update_output("fast", "0") on an empty document reads back as disabled
C15_Witness ==
  /\ last.op = "update_output"
  /\ last.res.ret
  /\ last.pre = EmptyFile
  /\ last.args = <<PyStr("fast"), PyStr("0"), PyNone>>
  /\ ReadsBackEnabled("fast", PyBool(FALSE))

\* the protocols mapping of a document, empty when there is none
ProtocolsOf(d) ==
  LET al == RootEntry(d, "app-layer")
  IN  IF al.has /\ IsDict(al.v) /\ IsDict(DictGetOr(al.v, "protocols", PyNone))
        THEN DictGet(al.v, "protocols") ELSE EmptyDict

\* the other protocol entries are as they were
OtherProtocolsKept(name) ==
  /\ DictKeys(ProtocolsOf(After)) = DictKeys(ProtocolsOf(Before)) \cup {name}
  /\ \A k \in DictKeys(ProtocolsOf(Before)) \ {name} :
       DictGet(ProtocolsOf(After), k) = DictGet(ProtocolsOf(Before), k)

\* C16 as stated: after update_protocol returns true the protocol's entry is
\* its previous value overlaid with settings, its enabled equals
\* to_bool(enabled), and every other protocol entry is unchanged.
C16_ProtocolMerged ==
  (last.op = "update_protocol" /\ last.res.ret) =>
    LET name == last.args[1].s
        new == DictGetOr(ProtocolsOf(After), name, PyNone)
        old == DictGetOr(ProtocolsOf(Before), name, EmptyDict)
    IN  /\ IsDict(old)
        /\ IsFlaggedOverlay(new, old, PyBool(to_bool(last.args[2])), GivenSettings(last.args[3]))
        /\ DictGet(new, "enabled") = PyBool(to_bool(last.args[2]))
        /\ OtherProtocolsKept(name)

\* C16: the same, but enabled equals to_bool(enabled) only when settings has
\* no `enabled` key of its own; a settings value for `enabled` wins.
C16_ProtocolMergedSettingsWin ==
  (last.op = "update_protocol" /\ last.res.ret) =>
    LET name == last.args[1].s
        new == DictGetOr(ProtocolsOf(After), name, PyNone)
        old == DictGetOr(ProtocolsOf(Before), name, EmptyDict)
    IN  /\ IsDict(old)
        /\ IsFlaggedOverlay(new, old, PyBool(to_bool(last.args[2])), GivenSettings(last.args[3]))
        /\ OtherProtocolsKept(name)

\* http got a new limit and flag, kept its place, and tls stayed as it was
C16_Witness ==
  /\ last.op = "update_protocol"
  /\ last.res.ret
  /\ last.pre = TypicalFile
  /\ last.args = <<PyStr("http"), PyStr("0"), PyDict(<<E("request-body-limit", PyInt(99))>>)>>
  /\ DictGet(ProtocolsOf(After), "http") =
       PyDict(<<E("enabled", PyBool(FALSE)), E("request-body-limit", PyInt(99))>>)
  /\ DictGet(ProtocolsOf(Before), "http") # DictGet(ProtocolsOf(After), "http")
  /\ DictHas(ProtocolsOf(After), "tls")

\* C17: update_protocol is idempotent: a second call with the same arguments
\* returns what the first returned and leaves the file as the first left it.
C17_Idempotent ==
  last.op = "update_protocol" =>
    LET again == AppLayerConfig_update_protocol(file, last.args[1].s, last.args[2], last.args[3])
    IN  again.file = file /\ again.ret = last.res.ret

\* a first call that changed the file
C17_Witness ==
  /\ last.op = "update_protocol"
  /\ last.res.ret
  /\ last.pre = TypicalFile
  /\ file # last.pre
  /\ last.args[3] = PyDict(<<E("enabled", PyStr("maybe")), E("request-body-limit", PyInt(99))>>)

\* the value under key of a mapping when that value is a mapping, else {}
MappingAt(d, key) ==
  IF IsDict(d) /\ IsDict(DictGetOr(d, key, PyNone)) THEN DictGet(d, key) ELSE EmptyDict

\* the `stream` mapping of a document, empty when there is none
StreamOf(d) == IF RootEntry(d, "stream").has THEN MappingAt(PyDict(<<E("stream", RootEntry(d, "stream").v)>>), "stream") ELSE EmptyDict

\* C18: update_stream is a two-level merge. After a true return every
\* top-level settings key other than reassembly has the settings value,
\* every existing key not in settings is unchanged, and when
\* settings.reassembly is a mapping stream.reassembly is the previous
\* reassembly mapping (empty if there was none) overlaid with it; a
\* settings.reassembly that is not a mapping leaves reassembly as it was.
C18_TwoLevelMerge ==
  (last.op = "update_stream" /\ last.res.ret) =>
    LET settings == last.args[1]
        old == StreamOf(Before)
        new == StreamOf(After)
        deep == IsDict(settings) /\ IsDict(DictGetOr(settings, "reassembly", PyNone))
    IN  /\ IsDict(settings)
        /\ RootEntry(After, "stream").has /\ IsDict(RootEntry(After, "stream").v)
        /\ DictKeys(new) = DictKeys(old) \cup (DictKeys(settings) \ {"reassembly"})
                             \cup (IF deep THEN {"reassembly"} ELSE {})
        /\ \A k \in DictKeys(settings) \ {"reassembly"} : DictGet(new, k) = DictGet(settings, k)
        /\ \A k \in DictKeys(old) \ DictKeys(settings) : DictGet(new, k) = DictGet(old, k)
        /\ deep => IsOverlay(DictGet(new, "reassembly"), MappingAt(old, "reassembly"),
                             DictGet(settings, "reassembly"))
        /\ (~deep /\ DictHas(old, "reassembly")) =>
             DictGet(new, "reassembly") = DictGet(old, "reassembly")

\* the depth was overwritten, a second reassembly key and memcap were kept
C18_Witness ==
  /\ last.op = "update_stream"
  /\ last.res.ret
  /\ last.pre = TypicalFile
  /\ last.args[1] = PyDict(<<E("reassembly", PyDict(<<E("depth", PyStr("2mb"))>>)), E("inline", PyStr("yes"))>>)
  /\ DictGet(MappingAt(StreamOf(After), "reassembly"), "depth") = PyStr("2mb")
  /\ DictGet(MappingAt(StreamOf(Before), "reassembly"), "depth") # PyStr("2mb")
  /\ DictKeys(MappingAt(StreamOf(After), "reassembly")) # {"depth"}
  /\ DictHas(StreamOf(After), "memcap")
  /\ DictGet(StreamOf(After), "inline") = PyStr("yes")

\* C19 as stated: get_stream() on an existing file whose root is a mapping
\* returns a mapping with a reassembly key whose value is a mapping, whatever
\* the document holds under `stream`.
C19_StreamHasReassembly ==
  (last.op = "get_stream" /\ last.pre.f = "yaml" /\ IsDict(Before)) =>
    /\ last.res.raised = ""
    /\ IsDict(last.res.val)
    /\ IsDict(DictGetOr(last.res.val, "reassembly", PyNone))

\* the capture back-ends update_interfaces writes
BackEnds == {"af-packet", "af-xdp", "dpdk", "pcap"}

\* the entries of the given type in the input list of the last call
InputOfType(type) ==
  SelectSeq(last.args[1].items, LAMBDA i : DictGetOr(i, "type", PyNone) = PyStr(type))

\* the saved subtree of a back-end: its root key, or dpdk.interfaces
SavedSubtree(d, type) ==
  IF type = "dpdk"
    THEN DictGetOr(MappingAt(PyDict(<<E("dpdk", RootEntry(d, "dpdk").v)>>), "dpdk"), "interfaces", PyNone)
    ELSE RootEntry(d, type).v

\* saved is the projection of the input entry wanted: no type or enabled key,
\* the interface name of the input (or ""), and input values for shared keys
IsSavedInterface(saved, wanted) ==
  /\ IsDict(saved)
  /\ DictKeys(saved) \cap {"type", "enabled"} = {}
  /\ DictGetOr(saved, "interface", PyNone) = DictGetOr(wanted, "interface", PyStr(""))
  /\ \A k \in DictKeys(saved) \cap DictKeys(wanted) : DictGet(saved, k) = DictGet(wanted, k)

ConfiguredEntries(d, type) ==
  LET sub == SavedSubtree(d, type)
  IN  IF IsList(sub)
        THEN SelectSeq(sub.items, LAMBDA e : IsDict(e) /\ DictHas(e, "interface"))
        ELSE << >>

\* the descriptors of one back-end in a get_interfaces() result
DescriptorsOfType(val, type) ==
  SelectSeq(val.items, LAMBDA x : IsDict(x) /\ DictGetOr(x, "type", PyNone) = PyStr(type))

AfPacketDefaults ==
  PyDict(<<E("threads", PyStr("auto")), E("cluster-id", PyInt(99)),
           E("cluster-type", PyStr("cluster_flow"))>>)

\* x describes entry e of the back-end: its interface, and for af-packet each
\* of threads, cluster-id, cluster-type from e, the default when e lacks it
IsDescriptorOf(x, type, e) ==
  /\ DictGetOr(x, "interface", PyNone) = DictGet(e, "interface")
  /\ type = "af-packet" =>
       \A k \in DictKeys(AfPacketDefaults) :
         DictGetOr(x, k, PyNone) = DictGetOr(e, k, DictGet(AfPacketDefaults, k))

\* val lists one descriptor per configured entry of document d, nothing else
DescribesAll(val, d) ==
  /\ IsList(val)
  /\ \A i \in DOMAIN val.items :
       IsDict(val.items[i]) /\ \E type \in BackEnds : DictGetOr(val.items[i], "type", PyNone) = PyStr(type)
  /\ \A type \in BackEnds :
       /\ Len(DescriptorsOfType(val, type)) = Len(ConfiguredEntries(d, type))
       /\ \A n \in DOMAIN ConfiguredEntries(d, type) :
            IsDescriptorOf(DescriptorsOfType(val, type)[n], type, ConfiguredEntries(d, type)[n])

\* C21 as stated: get_interfaces() on a mapping document returns one
\* descriptor for every mapping entry with an `interface` key under
\* af-packet, af-xdp, dpdk.interfaces and pcap, and nothing else, with the
\* back-end as `type` and the af-packet defaults where the entry sets none.
C21_AllInterfacesListed ==
  (last.op = "get_interfaces" /\ last.pre.f = "yaml" /\ IsDict(Before)) =>
    last.res.raised = "" /\ DescribesAll(last.res.val, Before)

(***************************************************************************)
(* to_bool on its own: each step normalizes one value.                     *)
(***************************************************************************)
BoolInputs ==
  {PyStr(s) : s \in PaddedTexts}
    \cup {PyNone, PyBool(TRUE), PyBool(FALSE), PyInt(0), PyInt(1), PyInt(99),
          EmptyList, EmptyDict, PyList(<<PyInt(0)>>), PyDict(<<E("enabled", PyBool(FALSE))>>), PyObj}

InitBool ==
  /\ file = Missing
  /\ last = NoCall
  /\ nops = 0
  /\ pc = << >>
  /\ loaded = << >>
  /\ order = << >>
  /\ NoLimiter /\ NoMonitor

ToBool == \E v \in BoolInputs : Call("to_bool", "pure", <<v>>, Ok(PyBool(to_bool(v))), file)

NextBool == ToBool

SpecBool == InitBool /\ [][NextBool]_vars

\* the spellings of the true words, in every case the inputs use
TrueSpellings == {"1", "true", "True", "TRUE", "yes", "Yes", "YES", "yEs", "on", "On", "ON"}

\* C22 as stated: to_bool of a string is true exactly when the string
\* equals, ignoring case, one of 1, true, yes, on - a padded string such as
\* " yes " is false - and to_bool of a non-string is its truthiness.
C22_ToBoolExact ==
  last.op = "to_bool" =>
    LET v == last.args[1]
    IN  last.res.val = PyBool(IF IsStr(v) THEN v.s \in TrueSpellings ELSE Truthy(v))

\* C22: to_bool of a string is true exactly when the string, with the
\* whitespace around it removed, equals one of 1, true, yes, on ignoring
\* case; to_bool of a non-string is its truthiness.
C22_ToBoolStripped ==
  last.op = "to_bool" =>
    LET v == last.args[1]
    IN  last.res.val =
          PyBool(IF IsStr(v)
                   THEN \E w \in TrueSpellings, l \in Pads, r \in Pads : v.s = l \o w \o r
                   ELSE Truthy(v))

\* a padded, upper-case yes is true
C22_Witness ==
  /\ last.op = "to_bool"
  /\ last.args[1] = PyStr("\tYES\n")
  /\ last.res.val = PyBool(TRUE)

(***************************************************************************)
(* Sequences of successful capture updates on a document whose capture     *)
(* sections have their documented shapes.                                  *)
(***************************************************************************)
MaxCaptureOps == 2

\* every capture section present and in its documented shape
ShapedFile ==
  Doc(NMap(<<
    E("af-packet", NSeq(<<NMap(<<E("interface", Plain("eth0")), E("threads", Plain("auto"))>>)>>)),
    E("af-xdp", NSeq(<<NMap(<<E("interface", Plain("eth3"))>>)>>)),
    E("pcap", NSeq(<<NMap(<<E("interface", Plain("eth2"))>>)>>)),
    E("dpdk", NMap(<<E("eal-params", NMap(<<E("proc-type", Plain("primary"))>>)),
                     E("interfaces", NSeq(<<NMap(<<E("interface", Quoted("0"))>>)>>))>>)),
    E("vars", NMap(<<E("HOME_NET", Plain("any"))>>))>>))

\* the same shapes with nothing configured
ShapedEmptyFile ==
  Doc(NMap(<<
    E("af-packet", NSeq(<< >>)),
    E("af-xdp", NSeq(<< >>)),
    E("pcap", NSeq(<< >>)),
    E("dpdk", NMap(<<E("interfaces", NSeq(<< >>))>>))>>))

InitCapture ==
  /\ file \in {ShapedFile, ShapedEmptyFile}
  /\ last = NoCall
  /\ nops = 0
  /\ pc = << >>
  /\ loaded = << >>
  /\ order = << >>
  /\ NoLimiter /\ NoMonitor

\* one more successful update
Succeeded(op, args, r) ==
  /\ nops < MaxCaptureOps
  /\ r.ret
  /\ nops' = nops + 1
  /\ last' = [op |-> op, kind |-> "update", pre |-> file, args |-> args, res |-> r]
  /\ file' = r.file
  /\ UNCHANGED <<pc, loaded, order, limiterVars, monitorVars>>

CapturePacketCapture ==
  \E ct \in BackEnds, s \in {x \in CaptureSettings : IsDict(x)} :
    Succeeded("update_packet_capture_config", <<PyStr(ct), s>>,
              CaptureConfig_update_packet_capture_config(file, ct, s))

CaptureInterfaces ==
  \E is \in InterfaceLists :
    Succeeded("update_interfaces", <<is>>, CaptureConfig_update_interfaces(file, is))

CaptureIps ==
  \E s \in IpsSettings : Succeeded("update_ips", <<s>>, IPSConfig_update_ips(file, s))

NextCapture == CapturePacketCapture \/ CaptureInterfaces \/ CaptureIps

SpecCapture == InitCapture /\ [][NextCapture]_vars

\* a sequence of mappings
IsSeqOfMappings(x) == IsList(x) /\ \A i \in DOMAIN x.items : IsDict(x.items[i])

\* the documented shapes of the four capture sections
CaptureShaped(d) ==
  /\ IsDict(d)
  /\ \A key \in {"af-packet", "af-xdp", "pcap"} :
       DictHas(d, key) /\ IsSeqOfMappings(DictGet(d, key))
  /\ DictHas(d, "dpdk") /\ IsDict(DictGet(d, "dpdk"))
  /\ DictHas(DictGet(d, "dpdk"), "interfaces")
  /\ IsSeqOfMappings(DictGet(DictGet(d, "dpdk"), "interfaces"))

\* C23 as stated: from a document with the documented capture shapes, after
\* any sequence of successful update_packet_capture_config, update_interfaces
\* and update_ips calls, af-packet, af-xdp and pcap are still sequences of
\* mappings and dpdk is still a mapping with an `interfaces` sequence.
C23_CaptureShapesKept == CaptureShaped(After)

\* the other of the two callers
Other(p) == CHOOSE q \in Procs : q # p

\* caller p has completed its save
HasSaved(p) == \E i \in DOMAIN order : order[i] = p

\* C24 as stated: a load never observes a partially written document.  A
\* caller that has loaded saw the complete document from before or the
\* complete document the other caller saved, and once both updates have
\* returned true every root key of the starting file that neither update
\* touches is still in the file.
C24_NoPartialLoad ==
  (last.pre.f = "yaml" /\ IsDict(Before)) =>
    /\ \A p \in Procs :
         loaded[p].seen # PyNone =>
           \/ loaded[p].seen = Before
           \/ HasSaved(Other(p)) /\ loaded[p].seen = loaded[Other(p)].doc
    /\ BothSaved =>
         KeysOf(Before) \ {RaceKey(1), RaceKey(2)} \subseteq KeysOf(After)

(***************************************************************************)
(* Two updates through two different section managers, one after the       *)
(* other; `loaded` keeps the first call.                                   *)
(***************************************************************************)
ManagerOf(op) ==
  CASE op = "update_protocol" -> "AppLayerConfig"
    [] op \in {"update_af_packet_config", "update_interfaces"} -> "CaptureConfig"
    [] op \in {"update_stream", "update_detection"} -> "EngineConfig"
    [] op \in {"update_vars", "update_var", "update_output", "update_logging", "update_host"} ->
         "SystemConfig"
    [] OTHER -> "IPSConfig"

PairFiles == {TypicalFile, ShapedFile, EmptyFile}

InitPair ==
  /\ file \in PairFiles
  /\ last = NoCall
  /\ nops = 0
  /\ pc = << >>
  /\ loaded = << >>
  /\ order = << >>
  /\ NoLimiter /\ NoMonitor

\* the first update, successful
PairFirst ==
  /\ nops = 0
  /\ \E op \in FacadeUpdateOps : \E args \in UpdateArgs(op) :
       LET r == SectionUpdate(op, file, args)
       IN  /\ r.ret
           /\ last' = [op |-> op, kind |-> "update", pre |-> file, args |-> args, res |-> r]
           /\ loaded' = <<[op |-> op, args |-> args, pre |-> file]>>
           /\ file' = r.file
  /\ nops' = 1
  /\ UNCHANGED <<pc, order, limiterVars, monitorVars>>

\* the second update, successful, through another manager
PairSecond ==
  /\ nops = 1
  /\ \E op \in FacadeUpdateOps : \E args \in UpdateArgs(op) :
       LET r == SectionUpdate(op, file, args)
       IN  /\ ManagerOf(op) # ManagerOf(loaded[1].op)
           /\ r.ret
           /\ last' = [op |-> op, kind |-> "update", pre |-> file, args |-> args, res |-> r]
           /\ file' = r.file
  /\ nops' = 2
  /\ UNCHANGED <<pc, loaded, order, limiterVars, monitorVars>>

NextPair == PairFirst \/ PairSecond

SpecPair == InitPair /\ [][NextPair]_vars

\* the same two calls on the same starting file, the second one first
Swapped ==
  LET second == SectionUpdate(last.op, loaded[1].pre, last.args)
      first == SectionUpdate(loaded[1].op, second.file, loaded[1].args)
  IN  [ret |-> second.ret /\ first.ret, file |-> first.file]

\* two values are equal up to the order of the keys of their mappings
RECURSIVE SameValue(_, _)
SameValue(x, y) ==
  IF IsDict(x) /\ IsDict(y)
    THEN /\ DictKeys(x) = DictKeys(y)
         /\ \A k \in DictKeys(x) : SameValue(DictGet(x, k), DictGet(y, k))
  ELSE IF IsList(x) /\ IsList(y)
    THEN /\ Len(x.items) = Len(y.items)
         /\ \A i \in DOMAIN x.items : SameValue(x.items[i], y.items[i])
  ELSE x = y

\* two files hold the same document up to key order
SameDocument(f, g) == SameValue(ConfigFile_load(f).val, ConfigFile_load(g).val)

\* C25 as stated: two successful updates through two different section
\* managers leave the same document, up to key order, whichever runs first.
C25_ManagersCommute ==
  (nops = 2 /\ Swapped.ret) => SameDocument(file, Swapped.file)

\* C25: the same, for two calls whose sets of written root keys are disjoint.
C25_DisjointCommute ==
  (nops = 2 /\ WrittenKeys(last.op, last.args) \cap WrittenKeys(loaded[1].op, loaded[1].args) = {}) =>
    Swapped.ret /\ SameDocument(file, Swapped.file)

\* update_vars after update_stream on the typical file: both changed it
C25_Witness ==
  /\ nops = 2
  /\ loaded[1].pre = TypicalFile
  /\ loaded[1].op = "update_stream" /\ last.op = "update_vars"
  /\ RootEntry(After, "stream") # RootEntry(ConfigFile_load(loaded[1].pre).val, "stream")
  /\ RootEntry(After, "vars") # RootEntry(Before, "vars")
  /\ SameDocument(file, Swapped.file)

\* the enabled entries of the given type in the input list of the last call
EnabledInput(type) ==
  SelectSeq(InputOfType(type), LAMBDA i : Truthy(DictGetOr(i, "enabled", PyNone)))

\* x is the descriptor of input entry e, with the defaults filled in
IsDescriptorOfInput(x, type, e) ==
  /\ DictGetOr(x, "interface", PyNone) = DictGetOr(e, "interface", PyStr(""))
  /\ DictGetOr(x, "enabled", PyNone) = PyBool(TRUE)
  /\ type # "pcap" => DictGetOr(x, "threads", PyNone) = DictGetOr(e, "threads", PyStr("auto"))
  /\ type = "af-packet" =>
       \A k \in DictKeys(AfPacketDefaults) :
         DictGetOr(x, k, PyNone) = DictGetOr(e, k, DictGet(AfPacketDefaults, k))

\* the descriptors of the type in val are those of the enabled input entries
ReadsBackInput(val, type) ==
  /\ Len(DescriptorsOfType(val, type)) = Len(EnabledInput(type))
  /\ \A n \in DOMAIN EnabledInput(type) :
       IsDescriptorOfInput(DescriptorsOfType(val, type)[n], type, EnabledInput(type)[n])

\* C26 as stated: after update_interfaces(L) returns true on a mapping
\* document, get_interfaces() returns exactly the descriptors of the enabled entries of L of the four
\* types, whatever interfaces the document held before.
C26_ReadYourInterfaces ==
  (last.op = "update_interfaces" /\ last.res.ret /\ IsDict(Before)) =>
    LET g == CaptureConfig_get_interfaces(file)
    IN  /\ g.raised = "" /\ IsList(g.val)
        /\ \A type \in BackEnds : ReadsBackInput(g.val, type)

\* C26: after update_interfaces(L) returns true on a mapping document,
\* get_interfaces() returns, for each type with at least one entry in L, exactly the descriptors of
\* the enabled entries of L of that type, and for each other type the
\* descriptors it returned before the call.
C26_ReadYourInterfacesPerType ==
  (last.op = "update_interfaces" /\ last.res.ret /\ IsDict(Before)) =>
    LET g == CaptureConfig_get_interfaces(file)
        was == CaptureConfig_get_interfaces(last.pre)
    IN  /\ g.raised = "" /\ IsList(g.val)
        /\ \A type \in BackEnds :
             IF InputOfType(type) # << >>
               THEN ReadsBackInput(g.val, type)
               ELSE DescriptorsOfType(g.val, type) = DescriptorsOfType(was.val, type)

\* af-packet reads back as eth0 alone, and the pcap interface the file held
\* is still reported
C26_Witness ==
  /\ last.op = "update_interfaces"
  /\ last.res.ret
  /\ last.pre = TypicalFile
  /\ Len(InputOfType("af-packet")) = 2 /\ InputOfType("pcap") = << >>
  /\ LET g == CaptureConfig_get_interfaces(file)
     IN  /\ Len(DescriptorsOfType(g.val, "af-packet")) = 1
         /\ DictGet(DescriptorsOfType(g.val, "af-packet")[1], "interface") = PyStr("eth0")
         /\ Len(DescriptorsOfType(g.val, "pcap")) = 1

(***************************************************************************)
(* RateLimiter (integrations/rate_limiter.py).  `limiters` maps a name to  *)
(* its deque of timestamps, `now` is time.time(); every method runs under  *)
(* the lock, so a call is one step.  `sent` keeps, for each name, the      *)
(* timestamps of the calls that returned True, the (max_messages,          *)
(* interval) pairs its calls were made with, and whether it was reset.     *)
(***************************************************************************)
MaxTime == 3

MaxCalls == 3

MaxMessages == {1, 2}

Intervals == {1, 2}

\* while limiter and limiter[0] < bound: limiter.popleft()
RECURSIVE Expire(_, _)
Expire(q, bound) ==
  IF q # << >> /\ Head(q) < bound THEN Expire(Tail(q), bound) ELSE q

\* the deque of a name, created empty when the name is new
DequeOf(ls, name) == IF ls[name].present THEN ls[name].q ELSE << >>

WithDeque(ls, name, q) == [ls EXCEPT ![name] = [present |-> TRUE, q |-> q]]

\* a check that counts the deque without expiring old timestamps first
RateLimiter_can_send_unexpired(ls, current_time, integration_name, max_messages, interval) ==
  LET limiter == DequeOf(ls, integration_name)
  IN  IF Len(limiter) > max_messages
        THEN [ret |-> FALSE, limiters |-> WithDeque(ls, integration_name, limiter)]
        ELSE [ret |-> TRUE,
              limiters |-> WithDeque(ls, integration_name, Append(limiter, current_time))]

RateLimiter_can_send(ls, current_time, integration_name, max_messages, interval) ==
  LET limiter == Expire(DequeOf(ls, integration_name), current_time - interval)
  IN  IF Len(limiter) >= max_messages
        THEN [ret |-> FALSE, limiters |-> WithDeque(ls, integration_name, limiter)]
        ELSE [ret |-> TRUE,
              limiters |-> WithDeque(ls, integration_name, Append(limiter, current_time))]

RateLimiter_get_wait_time(ls, current_time, integration_name, max_messages, interval) ==
  IF ~ls[integration_name].present THEN [ret |-> 0, limiters |-> ls]
  ELSE LET limiter == Expire(ls[integration_name].q, current_time - interval)
           kept == WithDeque(ls, integration_name, limiter)
           wait_time == (Head(limiter) + interval) - current_time
       IN  IF Len(limiter) < max_messages THEN [ret |-> 0, limiters |-> kept]
           ELSE [ret |-> IF wait_time > 0 THEN wait_time ELSE 0, limiters |-> kept]

\* reset(name) clears the name's deque; reset(None) and reset("") drop them all
RateLimiter_reset(ls, integration_name) ==
  IF integration_name \in Names
    THEN IF ls[integration_name].present
           THEN [ls EXCEPT ![integration_name].q = << >>]
           ELSE ls
    ELSE NoDeques

InitLimiter ==
  /\ file = Missing
  /\ last = NoCall
  /\ nops = 0
  /\ pc = << >>
  /\ loaded = << >>
  /\ order = << >>
  /\ NoLimiter /\ NoMonitor

\* time.time() moves on
Tick ==
  /\ now < MaxTime
  /\ now' = now + 1
  /\ UNCHANGED <<configVars, limiters, sent, monitorVars>>

\* a call of one of the methods: its record, and the new deques
LimiterCall(op, args, ret, ls) ==
  /\ nops < MaxCalls
  /\ nops' = nops + 1
  /\ last' = [op |-> op, kind |-> "limiter", pre |-> limiters, args |-> args,
              res |-> [ret |-> ret, at |-> now]]
  /\ limiters' = ls
  /\ UNCHANGED <<file, pc, loaded, order, now, monitorVars>>

CanSend ==
  \E name \in Names, max_messages \in MaxMessages, interval \in Intervals :
    LET r == RateLimiter_can_send(limiters, now, name, max_messages, interval)
    IN  /\ LimiterCall("can_send", <<name, max_messages, interval>>, r.ret, r.limiters)
        /\ sent' = [sent EXCEPT ![name].args = @ \cup {<<max_messages, interval>>},
                                ![name].times = IF r.ret THEN Append(@, now) ELSE @]

GetWaitTime ==
  \E name \in Names, max_messages \in MaxMessages, interval \in Intervals :
    LET r == RateLimiter_get_wait_time(limiters, now, name, max_messages, interval)
    IN  /\ LimiterCall("get_wait_time", <<name, max_messages, interval>>, r.ret, r.limiters)
        /\ sent' = [sent EXCEPT ![name].args = @ \cup {<<max_messages, interval>>}]

Reset ==
  \E name \in Names \cup {""} :
    /\ LimiterCall("reset", <<name>>, 0, RateLimiter_reset(limiters, name))
    /\ sent' = [n \in Names |-> IF name \in {n, ""} THEN [sent[n] EXCEPT !.cleared = TRUE]
                                                     ELSE sent[n]]

NextLimiter == Tick \/ CanSend \/ GetWaitTime \/ Reset

SpecLimiter == InitLimiter /\ [][NextLimiter]_vars

\* the name was only ever called with one (max_messages, interval) pair
\* and never reset
FixedLimit(name) == Cardinality(sent[name].args) = 1 /\ ~sent[name].cleared

\* how many accepted timestamps of the name lie in [from, from + length]
AcceptedIn(name, from, length) ==
  Cardinality({i \in DOMAIN sent[name].times :
                 from <= sent[name].times[i] /\ sent[name].times[i] <= from + length})

\* C27: rate-limit bound.  For a name called with fixed max_messages and
\* interval, the calls that returned True with timestamps inside any window
\* of length interval never number more than max_messages, and a can_send
\* that returns False records no timestamp.
C27_RateBound ==
  /\ \A name \in Names :
       FixedLimit(name) =>
         \A a \in sent[name].args : \A from \in 0..MaxTime :
           AcceptedIn(name, from, a[2]) <= a[1]
  /\ (last.op = "can_send" /\ ~last.res.ret) =>
       LET name == last.args[1]
       IN  /\ DequeOf(limiters, name) = Expire(DequeOf(last.pre, name), last.res.at - last.args[3])
           /\ \A i \in DOMAIN DequeOf(limiters, name) : DequeOf(limiters, name)[i] \in
                {DequeOf(last.pre, name)[j] : j \in DOMAIN DequeOf(last.pre, name)}

\* a send accepted, one refused an instant later while the first is still
\* in the window, and one accepted once the window has passed
C27_Witness ==
  /\ FixedLimit("telegram")
  /\ sent["telegram"].args = {<<1, 1>>}
  /\ sent["telegram"].times = <<0, 2>>
  /\ nops = 3

\* C28 as stated: get_wait_time returns 0 exactly when a can_send made at
\* the same instant with the same arguments would return True, a positive
\* wait otherwise, and records no send.
C28_WaitAgreesWithSend ==
  last.op = "get_wait_time" =>
    LET would == RateLimiter_can_send(last.pre, last.res.at, last.args[1], last.args[2], last.args[3])
    IN  /\ (last.res.ret = 0) = would.ret
        /\ last.res.ret >= 0
        /\ \A i \in DOMAIN DequeOf(limiters, last.args[1]) :
             DequeOf(limiters, last.args[1])[i] \in
               {DequeOf(last.pre, last.args[1])[j] : j \in DOMAIN DequeOf(last.pre, last.args[1])}

(***************************************************************************)
(* BackgroundTasks._auto_restart_monitor (app/background_tasks.py).        *)
(* `running` is whether the Suricata service is active; the thread's       *)
(* locals are is_running, retry_count and last_status, `at` is its place   *)
(* in the loop, and `restarts` counts its calls of controller.restart().   *)
(***************************************************************************)
AUTO_RESTART_MAX_RETRIES == 3

\* the service stops crashing once it has been restarted this often
MaxRestarts == 4

InitMonitor ==
  /\ file = Missing
  /\ last = NoCall
  /\ nops = 0
  /\ pc = << >>
  /\ loaded = << >>
  /\ order = << >>
  /\ NoLimiter
  /\ running \in BOOLEAN
  /\ is_running = FALSE
  /\ retry_count = 0
  /\ last_status = "none"
  /\ at = "status"
  /\ restarts = 0

\* the service dies
Crash ==
  /\ running
  /\ restarts < MaxRestarts
  /\ running' = FALSE
  /\ UNCHANGED <<configVars, limiterVars, is_running, retry_count, last_status, at, restarts>>

\* status = controller.get_status(); is_running = status.get('running', False)
MonitorStatus ==
  /\ at = "status"
  /\ is_running' = running
  /\ at' = "decide"
  /\ UNCHANGED <<configVars, limiterVars, running, retry_count, last_status, restarts>>

\* `if not is_running and last_status and last_status.get('running')`, and
\* inside it `if retry_count < AUTO_RESTART_MAX_RETRIES`
MonitorDecide ==
  /\ at = "decide"
  /\ at' = IF ~is_running /\ last_status = "running" /\ retry_count < AUTO_RESTART_MAX_RETRIES
             THEN "restart" ELSE "update"
  /\ UNCHANGED <<configVars, limiterVars, running, is_running, retry_count, last_status, restarts>>

\* result = controller.restart(); retry_count += 1 when it succeeded
MonitorRestart ==
  /\ at = "restart"
  /\ restarts' = restarts + 1
  /\ \E success \in BOOLEAN :
       /\ running' = success
       /\ retry_count' = IF success THEN retry_count + 1 ELSE retry_count
  /\ at' = "update"
  /\ UNCHANGED <<configVars, limiterVars, is_running, last_status>>

\* `if is_running: retry_count = 0`, then `last_status = status`
MonitorUpdate ==
  /\ at = "update"
  /\ retry_count' = IF is_running THEN 0 ELSE retry_count
  /\ last_status' = IF is_running THEN "running" ELSE "stopped"
  /\ at' = "sleep"
  /\ UNCHANGED <<configVars, limiterVars, running, is_running, restarts>>

\* time.sleep(AUTO_RESTART_CHECK_INTERVAL)
MonitorSleep ==
  /\ at = "sleep"
  /\ at' = "status"
  /\ UNCHANGED <<configVars, limiterVars, running, is_running, retry_count, last_status, restarts>>

MonitorStep == MonitorStatus \/ MonitorDecide \/ MonitorRestart \/ MonitorUpdate \/ MonitorSleep

NextMonitor == Crash \/ MonitorStep

SpecMonitor == InitMonitor /\ [][NextMonitor]_vars

\* the monitor thread keeps running its loop
SpecMonitorFair == SpecMonitor /\ WF_vars(MonitorStep)

\* C29 as stated: auto-restart is bounded.  With Suricata crashing again
\* after every successful restart, the monitor calls restart at most
\* AUTO_RESTART_MAX_RETRIES times.
C29_RestartsBounded == restarts <= AUTO_RESTART_MAX_RETRIES

\* the monitor has just seen Suricata go from running to not running
CrashObserved == at = "decide" /\ ~is_running /\ last_status = "running"

\* C30 as stated: once the monitor has observed Suricata going from running
\* to not running, then, the monitor loop being scheduled fairly, Suricata
\* is eventually running again or the retry limit has been reached (counted
\* as the monitor counts it, or as the number of restart calls made).
C30_RetriesUntilLimit ==
  CrashObserved ~> (\/ running
                    \/ retry_count >= AUTO_RESTART_MAX_RETRIES
                    \/ restarts >= AUTO_RESTART_MAX_RETRIES)

====
